---------------------------- MODULE Spec2Model ----------------------------
(***************************************************************************)
(* tcptalk: the chat server of src/server/src/main.rs.                     *)
(*                                                                         *)
(* One handler thread per accepted connection runs handle_client:          *)
(* get_username (prompt, read, validate, uniqueness check under the        *)
(* registry lock), insert into the registry, broadcast the join notice,    *)
(* relay every chunk read, broadcast the leave notice, remove the entry.   *)
(* The registry is Arc<Mutex<HashMap<SocketAddr, Client>>>; the mutex is   *)
(* the variable `lock`, and every statement that runs while a guard is     *)
(* alive is a step taken with lock = the handler.                          *)
(*                                                                         *)
(* Text is a sequence of one-character strings, so that trim(),            *)
(* eq_ignore_ascii_case() and format!() are computed, not assumed.         *)
(* Bytes outside ASCII are the strings "0xNN".  Of the process's stdout    *)
(* only the failure of the relay's echo is modelled (println! panics).     *)
(***************************************************************************)
EXTENDS Integers, Sequences, FiniteSets, TLC

(* ------------------------------ bounds -------------------------------- *)

\* candidate reads (loop iterations of get_username) in a run
MaxReads == 3

\* non-empty reads of the relay loops in a run
MaxChat == 1

\* I/O operations that fail in a run (reads, writes, flushes, try_clone)
MaxFail == 1

\* the peer addresses of the connections the listener accepts in a run
Conns == {1, 2, 3}

\* no thread holds the registry mutex
NoThread == 0

(* ------------------------------- text --------------------------------- *)

Upper ==
    <<"A", "B", "C", "D", "E", "F", "G", "H", "I", "J", "K", "L", "M",
      "N", "O", "P", "Q", "R", "S", "T", "U", "V", "W", "X", "Y", "Z">>

Lower ==
    <<"a", "b", "c", "d", "e", "f", "g", "h", "i", "j", "k", "l", "m",
      "n", "o", "p", "q", "r", "s", "t", "u", "v", "w", "x", "y", "z">>

\* u8::to_ascii_lowercase on one character
ToAsciiLower(ch) ==
    IF \E i \in 1..Len(Upper) : Upper[i] = ch
    THEN Lower[CHOOSE i \in 1..Len(Upper) : Upper[i] = ch]
    ELSE ch

\* str::eq_ignore_ascii_case
EqIgnoreAsciiCase(a, b) ==
    /\ Len(a) = Len(b)
    /\ \A i \in 1..Len(a) : ToAsciiLower(a[i]) = ToAsciiLower(b[i])

\* char::is_whitespace on the characters a peer sends here
IsWhitespace(ch) == ch \in {" ", "\n", "\r", "\t"}

RECURSIVE TrimStart(_)
TrimStart(s) ==
    IF s # <<>> /\ IsWhitespace(Head(s)) THEN TrimStart(Tail(s)) ELSE s

RECURSIVE TrimEnd(_)
TrimEnd(s) ==
    IF s # <<>> /\ IsWhitespace(s[Len(s)])
    THEN TrimEnd(SubSeq(s, 1, Len(s) - 1))
    ELSE s

\* str::trim
Trim(s) == TrimEnd(TrimStart(s))

PROMPT ==
    <<"E", "n", "t", "e", "r", " ", "y", "o", "u", "r", " ", "u", "s", "e",
      "r", "n", "a", "m", "e", ":", " ">>

EMPTY_REJECTION ==
    <<"U", "s", "e", "r", "n", "a", "m", "e", " ", "c", "a", "n", "n", "o",
      "t", " ", "b", "e", " ", "e", "m", "p", "t", "y", ".", " ", "P", "l",
      "e", "a", "s", "e", " ", "t", "r", "y", " ", "a", "g", "a", "i", "n",
      ".", "\n">>

RESERVED_REJECTION ==
    <<"U", "s", "e", "r", "n", "a", "m", "e", " ", "'", "S", "y", "s", "t",
      "e", "m", "'", " ", "i", "s", " ", "r", "e", "s", "e", "r", "v", "e",
      "d", ".", " ", "P", "l", "e", "a", "s", "e", " ", "c", "h", "o", "o",
      "s", "e", " ", "a", "n", "o", "t", "h", "e", "r", ".", "\n">>

TAKEN_REJECTION ==
    <<"U", "s", "e", "r", "n", "a", "m", "e", " ", "i", "s", " ", "a", "l",
      "r", "e", "a", "d", "y", " ", "t", "a", "k", "e", "n", ".", " ", "P",
      "l", "e", "a", "s", "e", " ", "c", "h", "o", "o", "s", "e", " ", "a",
      "n", "o", "t", "h", "e", "r", ".", "\n">>

RESERVED == <<"S", "y", "s", "t", "e", "m">>

JoinSuffix ==
    <<" ", "h", "a", "s", " ", "j", "o", "i", "n", "e", "d", " ", "t", "h",
      "e", " ", "c", "h", "a", "t", "\n">>

LeaveSuffix ==
    <<" ", "h", "a", "s", " ", "l", "e", "f", "t", " ", "t", "h", "e", " ",
      "c", "h", "a", "t", "\n">>

\* format!("{} has joined the chat\n", username)
JoinMessage(u) == u \o JoinSuffix

\* format!("{} has left the chat\n", username)
LeaveMessage(u) == u \o LeaveSuffix

\* format!("{}: {}", username, message)
FormattedMsg(u, message) == u \o <<":", " ">> \o message

\* let mut buf = [0u8; 32]
UsernameBufLen == 32

\* what a candidate read can return whoever the peer is: nothing (the peer
\* closed), blanks, the reserved name in another case
InvalidReads ==
    { <<>>,
      <<" ", "\n">>,
      <<"s", "Y", "S", "T", "E", "M", "\n">> }

\* what one candidate read of the connection from `addr` can return: the
\* first peer types "al", the second " AL" or "bo", the third "cy"
CandidateReads(addr) ==
    InvalidReads \cup
    CASE addr = 1 -> { <<"a", "l", "\n">> }
      [] addr = 2 -> { <<" ", "A", "L", "\n">>, <<"b", "o", "\n">> }
      [] OTHER -> { <<"c", "y", "\n">> }

\* a byte that occurs in no UTF-8 encoding
InvalidByte == "0xFF"

\* the UTF-8 encoding of U+FFFD, the replacement character
REPLACEMENT == <<"0xEF", "0xBF", "0xBD">>

\* String::from_utf8_lossy on bytes that are ASCII or InvalidByte: the
\* ASCII bytes are kept, each invalid byte becomes U+FFFD
RECURSIVE FromUtf8Lossy(_)
FromUtf8Lossy(bytes) ==
    IF bytes = <<>> THEN <<>>
    ELSE (IF Head(bytes) = InvalidByte THEN REPLACEMENT ELSE <<Head(bytes)>>)
         \o FromUtf8Lossy(Tail(bytes))

\* what one non-empty read of the relay loop can return: a line of text,
\* or a line holding a byte that is not UTF-8
ChatReads == { <<"h", "i", "\n">>, <<InvalidByte, "\n">> }

\* stream.read(&mut buf) with the 32-byte buffer, then from_utf8_lossy,
\* trim and to_string
CandidateOf(raw) ==
    Trim(FromUtf8Lossy(
        SubSeq(raw, 1, IF Len(raw) < UsernameBufLen THEN Len(raw) ELSE UsernameBufLen)))

(* ------------------------------ state --------------------------------- *)

VARIABLES
    pc,            \* position of each connection's handler thread
    buf,           \* the handler's `buf[..n]`: the bytes of its latest read
    username,      \* the handler's local `username`
    formatted_msg, \* the relay loop's local `formatted_msg`
    connections,   \* the registry: address -> Client (its username)
    lock,          \* the thread holding the registry mutex, or NoThread
    pass,          \* the locals of the running broadcast_message call
    wire,          \* what the latest step did to a stream, if anything
    reads,         \* candidate reads done so far
    chats,         \* non-empty relay reads done so far
    failures,      \* I/O operations that failed so far
    retry,         \* the handlers whose handshake was told `already taken`
    log            \* history of the relay, kept in OrderSpec only: what each
                   \* relay loop has read and what was written to whom

vars ==
    <<pc, buf, username, formatted_msg, connections, lock, pass, wire,
      reads, chats, failures, retry, log>>

\* the chat client of src/client/src, one App per client process
VARIABLES
    build,           \* the file the App is built from: app.rs or main.rs
    app_username,    \* App.username
    running,         \* App.running
    input_text,      \* App.input_text
    cursor_position, \* App.cursor_position
    messages,        \* App.messages, the history
    rx,              \* the mpsc channel of Events, oldest first
    reader,          \* the handle_server_messages thread: reading or stopped
    to_server,       \* lines the client wrote that the server has not read
    from_server,     \* chunks the server wrote that the client has not read
    keys,            \* key events produced so far
    arrivals,        \* notices, stream ends and split writes the network
                     \* produced so far
    cursor_visible,  \* App.cursor_visible
    ticks,           \* timer ticks produced so far
    sent,            \* events sent into the channel so far
    handled,         \* the number of the event the consumer handled last
    stage,           \* where the client's main is before App::run
    initial_messages \* main's `initial_messages`

cvars ==
    <<build, app_username, running, input_text, cursor_position, messages,
      rx, reader, to_server, from_server, keys, arrivals, cursor_visible,
      ticks, sent, handled, stage, initial_messages>>

\* the client processes the server's peers run
Clients == {1, 2}

\* no client process is modelled: the server's peers are its inputs
NoClients ==
    /\ build = "app.rs"
    /\ app_username = [k \in Clients |-> <<>>]
    /\ running = [k \in Clients |-> FALSE]
    /\ input_text = [k \in Clients |-> <<>>]
    /\ cursor_position = [k \in Clients |-> 0]
    /\ messages = [k \in Clients |-> <<>>]
    /\ rx = [k \in Clients |-> <<>>]
    /\ reader = [k \in Clients |-> "stopped"]
    /\ to_server = [k \in Clients |-> <<>>]
    /\ from_server = [k \in Clients |-> <<>>]
    /\ keys = 0
    /\ arrivals = 0
    /\ cursor_visible = [k \in Clients |-> FALSE]
    /\ ticks = 0
    /\ sent = [k \in Clients |-> 0]
    /\ handled = [k \in Clients |-> 0]
    /\ stage = [k \in Clients |-> "none"]
    /\ initial_messages = [k \in Clients |-> <<>>]

\* the handler is at a call of broadcast_message (lines 104, 119, 123)
BroadcastPcs == {"join", "relay", "leave"}

\* no call of broadcast_message is running
NoPass ==
    [ message |-> <<>>, sender_addr |-> NoThread, include_sender |-> FALSE,
      iter |-> {}, to_remove |-> {}, wrote |-> [a \in Conns |-> 0],
      failed |-> {} ]

\* the latest step wrote to no stream
NoWrite == [ to |-> NoThread, payload |-> <<>>, result |-> "none" ]

\* write_all then flush of `text` on the stream of `addr`: "ok", or
\* "write_err" (nothing sent), or "flush_err" (sent, then the error)
WriteTo(addr, text, result) ==
    [ to |-> addr, payload |-> text, result |-> result ]

\* this step is an iteration of the running pass that attempts the write to
\* the stream of a
WritesTo(a) == pass'.wrote[a] = pass.wrote[a] + 1

\* this step is a read of x's relay loop that returned a chunk
ReadsChunk(x) == pc[x] = "active" /\ pc'[x] = "relay"

\* this step is the insert of x's session by its handler
Inserts(x) ==
    x \notin DOMAIN connections /\ x \in DOMAIN connections'

\* after this step the handler of x has returned
Ends(x) == pc'[x] \in {"done", "failed"}

\* no history is kept
Unlogged ==
    [ on |-> FALSE,
      nread |-> [x \in Conns |-> 0],
      since |-> [r \in Conns |-> [x \in Conns |-> FALSE]],
      told |-> [r \in Conns |-> [x \in Conns |-> 0]] ]

\* the history is kept, and nothing has happened
Logging == [Unlogged EXCEPT !.on = TRUE]

\* r was registered when x was inserted and has been ever since, x's
\* handler still running
SinceAfter(r, x) ==
    IF Inserts(x) THEN r # x /\ r \in DOMAIN connections
    ELSE log.since[r][x] /\ r \in DOMAIN connections' /\ ~Ends(x)

\* the history after the step: nread[x] counts the chunks x's relay loop
\* has read, told[r][x] the payloads of x's handler whose write to r's
\* stream was attempted while since[r][x]
Logged ==
    log' =
       IF ~log.on THEN log
       ELSE [ on |-> TRUE,
              nread |->
                 [x \in Conns |->
                     IF Ends(x) \/ Inserts(x) THEN 0
                     ELSE IF ReadsChunk(x) THEN log.nread[x] + 1
                     ELSE log.nread[x]],
              since |-> [r \in Conns |-> [x \in Conns |-> SinceAfter(r, x)]],
              told |->
                 [r \in Conns |-> [x \in Conns |->
                     IF ~SinceAfter(r, x) \/ Inserts(x) THEN 0
                     ELSE IF WritesTo(r) /\ pass.sender_addr = x
                          THEN log.told[r][x] + 1
                     ELSE log.told[r][x]]] ]

\* the server after main has bound its listener
ServerInit ==
    /\ pc = [c \in Conns |-> "idle"]
    /\ buf = [c \in Conns |-> <<>>]
    /\ username = [c \in Conns |-> <<>>]
    /\ formatted_msg = [c \in Conns |-> <<>>]
    /\ connections = [a \in {} |-> [username |-> <<>>]]
    /\ lock = NoThread
    /\ pass = NoPass
    /\ wire = NoWrite
    /\ reads = 0
    /\ chats = 0
    /\ failures = 0
    /\ retry = {}
    /\ log = Unlogged

Init == ServerInit /\ NoClients

\* an I/O operation may fail while the run's failure budget lasts
MayFail == failures < MaxFail

\* variant: an Err is handled like the end of the chat, with a leave notice
FailThenLeave(c) ==
    /\ MayFail
    /\ failures' = failures + 1
    /\ pc' = [pc EXCEPT ![c] = "leave"]
    /\ buf' = [buf EXCEPT ![c] = <<>>]
    /\ retry' = retry \ {c}
    /\ UNCHANGED <<username, formatted_msg>>

\* the `?` operator on an Err: handle_client returns the error; its locals
\* are dropped
Fail(c) ==
    /\ MayFail
    /\ failures' = failures + 1
    /\ pc' = [pc EXCEPT ![c] = "failed"]
    /\ buf' = [buf EXCEPT ![c] = <<>>]
    /\ username' = [username EXCEPT ![c] = <<>>]
    /\ formatted_msg' = [formatted_msg EXCEPT ![c] = <<>>]
    /\ retry' = retry \ {c}

(* ---------------------- main: the accept loop ------------------------- *)

\* listener.incoming() yields one connection at a time and main spawns its
\* handler (addresses are numbered in the order of acceptance); the
\* handler starts with `let addr = stream.peer_addr()?`
Accept(c) ==
    /\ pc[c] = "idle"
    /\ \A d \in Conns : d < c => pc[d] # "idle"
    /\ \/ /\ pc' = [pc EXCEPT ![c] = "gu_prompt"]
          /\ UNCHANGED <<buf, username, formatted_msg, failures, retry>>
       \/ Fail(c)
    /\ wire' = NoWrite
    /\ UNCHANGED <<connections, lock, pass, reads, chats>>
    /\ Logged
    /\ UNCHANGED cvars

(* --------------------------- get_username ----------------------------- *)

\* variant: the emptiness check left out
IsEmptyNever(u) == FALSE

\* username.is_empty()
IsEmpty(u) == u = <<>>

\* variant: the reserved name compared byte for byte
IsReservedExact(u) == u = RESERVED

\* username.eq_ignore_ascii_case("System")
IsReserved(u) == EqIgnoreAsciiCase(u, RESERVED)

\* variant: the uniqueness check compares byte for byte
UsernameTakenExact(conn_map, u) ==
    \E a \in DOMAIN conn_map : conn_map[a].username = u

\* conn_map.values().any(|client| client.username.eq_ignore_ascii_case(&username))
UsernameTaken(conn_map, u) ==
    \E a \in DOMAIN conn_map : EqIgnoreAsciiCase(conn_map[a].username, u)

\* where the loop body goes after the read: the two checks made without
\* the registry, else the uniqueness check
AfterCandidate(u) ==
    IF IsEmpty(u) THEN "gu_reject_empty"
    ELSE IF IsReserved(u) THEN "gu_reject_reserved"
    ELSE "gu_lock"

\* where it goes after the uniqueness check
AfterCheck(username_taken) ==
    IF username_taken THEN "gu_reject_taken" ELSE "hc_lock"

\* stream.write_all(b"Enter your username: ")?; stream.flush()?;
GuPrompt(c) ==
    /\ pc[c] = "gu_prompt"
    /\ \/ /\ wire' = WriteTo(c, PROMPT, "ok")
          /\ pc' = [pc EXCEPT ![c] = "gu_read"]
          /\ UNCHANGED <<buf, username, formatted_msg, failures, retry>>
       \/ /\ \E r \in {"write_err", "flush_err"} : wire' = WriteTo(c, PROMPT, r)
          /\ Fail(c)
    /\ UNCHANGED <<connections, lock, pass, reads, chats>>
    /\ Logged
    /\ UNCHANGED cvars

\* variant: a zero-length read ends the handshake and the handler
GuReadEofEnds(c) ==
    /\ pc[c] = "gu_read"
    /\ reads < MaxReads
    /\ reads' = reads + 1
    /\ \/ \E raw \in CandidateReads(c) :
             /\ buf' = [buf EXCEPT ![c] = raw]
             /\ username' = [username EXCEPT ![c] = CandidateOf(raw)]
             /\ pc' = [pc EXCEPT ![c] = IF raw = <<>> THEN "failed"
                                       ELSE AfterCandidate(CandidateOf(raw))]
             /\ UNCHANGED <<formatted_msg, failures, retry>>
       \/ Fail(c)
    /\ wire' = NoWrite
    /\ UNCHANGED <<connections, lock, pass, chats>>
    /\ Logged
    /\ UNCHANGED cvars

\* let n = stream.read(&mut buf)?; let username = ...trim().to_string();
\* then the is_empty and the reserved-name tests
GuRead(c) ==
    /\ pc[c] = "gu_read"
    /\ reads < MaxReads
    /\ reads' = reads + 1
    /\ \/ \E raw \in CandidateReads(c) :
             /\ buf' = [buf EXCEPT ![c] = raw]
             /\ username' = [username EXCEPT ![c] = CandidateOf(raw)]
             /\ pc' = [pc EXCEPT ![c] = AfterCandidate(CandidateOf(raw))]
             /\ UNCHANGED <<formatted_msg, failures, retry>>
       \/ Fail(c)
    /\ wire' = NoWrite
    /\ UNCHANGED <<connections, lock, pass, chats>>
    /\ Logged
    /\ UNCHANGED cvars

\* the rejection written at each of the three `continue` branches
RejectionAt(at) ==
    CASE at = "gu_reject_empty" -> EMPTY_REJECTION
      [] at = "gu_reject_reserved" -> RESERVED_REJECTION
      [] at = "gu_reject_taken" -> TAKEN_REJECTION

RejectPcs == {"gu_reject_empty", "gu_reject_reserved", "gu_reject_taken"}

\* stream.write_all(<rejection>)?; stream.flush()?; continue;
GuReject(c) ==
    /\ pc[c] \in RejectPcs
    /\ \/ /\ wire' = WriteTo(c, RejectionAt(pc[c]), "ok")
          /\ pc' = [pc EXCEPT ![c] = "gu_prompt"]
          /\ buf' = [buf EXCEPT ![c] = <<>>]
          /\ username' = [username EXCEPT ![c] = <<>>]
          /\ retry' = IF pc[c] = "gu_reject_taken" THEN retry \cup {c} ELSE retry
          /\ UNCHANGED <<formatted_msg, failures>>
       \/ /\ \E r \in {"write_err", "flush_err"} :
                wire' = WriteTo(c, RejectionAt(pc[c]), r)
          /\ Fail(c)
    /\ UNCHANGED <<connections, lock, pass, reads, chats>>
    /\ Logged
    /\ UNCHANGED cvars

\* variant: the uniqueness check does not wait for the mutex
GuLockNoWait(c) ==
    /\ pc[c] = "gu_lock"
    /\ lock' = c
    /\ pc' = [pc EXCEPT ![c] = "gu_check"]
    /\ wire' = NoWrite
    /\ UNCHANGED <<buf, username, formatted_msg, connections, pass, reads,
                   chats, failures, retry>>
    /\ Logged
    /\ UNCHANGED cvars

\* let conn_map = connections.lock().unwrap();
GuLock(c) ==
    /\ pc[c] = "gu_lock"
    /\ lock = NoThread
    /\ lock' = c
    /\ pc' = [pc EXCEPT ![c] = "gu_check"]
    /\ wire' = NoWrite
    /\ UNCHANGED <<buf, username, formatted_msg, connections, pass, reads,
                   chats, failures, retry>>
    /\ Logged
    /\ UNCHANGED cvars

\* variant: the guard is not dropped before the rejection of a taken name
GuCheckKeepsGuard(c) ==
    /\ pc[c] = "gu_check"
    /\ lock = c
    /\ lock' = IF UsernameTaken(connections, username[c]) THEN c ELSE NoThread
    /\ pc' = [pc EXCEPT ![c] = AfterCheck(UsernameTaken(connections, username[c]))]
    /\ buf' = [buf EXCEPT ![c] =
                 IF UsernameTaken(connections, username[c]) THEN @ ELSE <<>>]
    /\ wire' = NoWrite
    /\ UNCHANGED <<username, formatted_msg, connections, pass, reads,
                   chats, failures, retry>>
    /\ Logged
    /\ UNCHANGED cvars

\* variant: the uniqueness check registers the name it finds free
GuCheckInserts(c) ==
    /\ pc[c] = "gu_check"
    /\ lock = c
    /\ lock' = NoThread
    /\ pc' = [pc EXCEPT ![c] = AfterCheck(UsernameTaken(connections, username[c]))]
    /\ buf' = [buf EXCEPT ![c] =
                 IF UsernameTaken(connections, username[c]) THEN @ ELSE <<>>]
    /\ connections' =
          IF UsernameTaken(connections, username[c]) THEN connections
          ELSE [a \in DOMAIN connections \cup {c} |->
                   IF a = c THEN [username |-> username[c]] ELSE connections[a]]
    /\ wire' = NoWrite
    /\ UNCHANGED <<username, formatted_msg, pass, reads, chats, failures, retry>>
    /\ Logged
    /\ UNCHANGED cvars

\* let username_taken = ...; drop(conn_map); then `if username_taken`
\* or `return Ok(username)` (buf is dropped), after which handle_client
\* goes on to line 91
GuCheck(c) ==
    /\ pc[c] = "gu_check"
    /\ lock = c
    /\ lock' = NoThread
    /\ pc' = [pc EXCEPT ![c] = AfterCheck(UsernameTaken(connections, username[c]))]
    /\ buf' = [buf EXCEPT ![c] =
                 IF UsernameTaken(connections, username[c]) THEN @ ELSE <<>>]
    /\ wire' = NoWrite
    /\ UNCHANGED <<username, formatted_msg, connections, pass, reads,
                   chats, failures, retry>>
    /\ Logged
    /\ UNCHANGED cvars

(* --------------------- handle_client: the insert ---------------------- *)

\* let mut conn_map = connections.lock().unwrap();
HcLock(c) ==
    /\ pc[c] = "hc_lock"
    /\ lock = NoThread
    /\ lock' = c
    /\ pc' = [pc EXCEPT ![c] = "hc_insert"]
    /\ wire' = NoWrite
    /\ UNCHANGED <<buf, username, formatted_msg, connections, pass, reads,
                   chats, failures, retry>>
    /\ Logged
    /\ UNCHANGED cvars

\* conn_map.insert(addr, Client { stream, username })
Inserted(conn_map, addr, u) ==
    [a \in DOMAIN conn_map \cup {addr} |->
        IF a = addr THEN [username |-> u] ELSE conn_map[a]]

\* variant: the relay loop begins right after the insert, without the join
\* notice
HcInsertNoJoin(c) ==
    /\ pc[c] = "hc_insert"
    /\ lock = c
    /\ lock' = NoThread
    /\ \/ /\ connections' = Inserted(connections, c, username[c])
          /\ pc' = [pc EXCEPT ![c] = "active"]
          /\ UNCHANGED <<buf, username, formatted_msg, failures, retry>>
       \/ /\ Fail(c)
          /\ UNCHANGED connections
    /\ wire' = NoWrite
    /\ UNCHANGED <<pass, reads, chats>>
    /\ Logged
    /\ UNCHANGED cvars

\* variant: the guard of the insert lives on into the join broadcast
HcInsertKeepsGuard(c) ==
    /\ pc[c] = "hc_insert"
    /\ lock = c
    /\ \/ /\ connections' = Inserted(connections, c, username[c])
          /\ pc' = [pc EXCEPT ![c] = "join"]
          /\ lock' = c
          /\ UNCHANGED <<buf, username, formatted_msg, failures, retry>>
       \/ /\ Fail(c)
          /\ lock' = NoThread
          /\ UNCHANGED connections
    /\ wire' = NoWrite
    /\ UNCHANGED <<pass, reads, chats>>
    /\ Logged
    /\ UNCHANGED cvars

\* conn_map.insert(addr, Client { stream: stream.try_clone()?, .. });
\* drop(conn_map). try_clone is evaluated before insert is called: when it
\* fails nothing is inserted and the guard is dropped by the early return
HcInsert(c) ==
    /\ pc[c] = "hc_insert"
    /\ lock = c
    /\ lock' = NoThread
    /\ \/ /\ connections' = Inserted(connections, c, username[c])
          /\ pc' = [pc EXCEPT ![c] = "join"]
          /\ UNCHANGED <<buf, username, formatted_msg, failures, retry>>
       \/ /\ Fail(c)
          /\ UNCHANGED connections
    /\ wire' = NoWrite
    /\ UNCHANGED <<pass, reads, chats>>
    /\ Logged
    /\ UNCHANGED cvars

(* -------------------------- broadcast_message ------------------------- *)

\* the payload of the call the handler is at
MessageAt(c) ==
    CASE pc[c] = "join" -> JoinMessage(username[c])
      [] pc[c] = "relay" -> formatted_msg[c]
      [] pc[c] = "leave" -> LeaveMessage(username[c])

\* variant: no call includes the sender
IncludeSenderNever(at) == FALSE

\* variant: every call includes the sender
IncludeSenderAlways(at) == TRUE

\* the include_sender argument of the call at lines 104, 119 and 123
IncludeSenderAt(at) == at = "join"

\* variant: the relay loop ends with the first broadcast
AfterBroadcastEndsRelay(at) ==
    CASE at = "join" -> "active"
      [] at = "relay" -> "leave"
      [] at = "leave" -> "hc_remove_lock"

\* where handle_client goes on when the call has returned Ok
AfterBroadcast(at) ==
    CASE at = "join" -> "active"
      [] at = "relay" -> "active"
      [] at = "leave" -> "hc_remove_lock"

\* variant: the loop writes to every entry
EligibleAlways(addr, sender_addr, include_sender) == TRUE

\* if include_sender || *addr != sender_addr
Eligible(addr, sender_addr, include_sender) ==
    include_sender \/ addr # sender_addr

\* the entries the for loop has still to visit once `addr` is visited,
\* whether or not the write to it failed
RestOfIter(iter, addr, failed) == iter \ {addr}

\* for addr in to_remove { conn_map.remove(&addr); }
Pruned(conn_map, to_remove) ==
    [a \in DOMAIN conn_map \ to_remove |-> conn_map[a]]

\* variant: the call does not wait for the mutex
BroadcastLockNoWait(c) ==
    /\ pc[c] \in BroadcastPcs
    /\ lock # c
    /\ lock' = c
    /\ pass' = [ message |-> MessageAt(c), sender_addr |-> c,
                 include_sender |-> IncludeSenderAt(pc[c]),
                 iter |-> DOMAIN connections, to_remove |-> {},
                 wrote |-> [a \in Conns |-> 0], failed |-> {} ]
    /\ wire' = NoWrite
    /\ UNCHANGED <<pc, buf, username, formatted_msg, connections, reads,
                   chats, failures, retry>>
    /\ Logged
    /\ UNCHANGED cvars

\* let mut conn_map = connections.lock().unwrap(); let mut to_remove = Vec::new();
\* and the iterator of the for loop
BroadcastLock(c) ==
    /\ pc[c] \in BroadcastPcs
    /\ lock = NoThread
    /\ lock' = c
    /\ pass' = [ message |-> MessageAt(c), sender_addr |-> c,
                 include_sender |-> IncludeSenderAt(pc[c]),
                 iter |-> DOMAIN connections, to_remove |-> {},
                 wrote |-> [a \in Conns |-> 0], failed |-> {} ]
    /\ wire' = NoWrite
    /\ UNCHANGED <<pc, buf, username, formatted_msg, connections, reads,
                   chats, failures, retry>>
    /\ Logged
    /\ UNCHANGED cvars

\* variant: only a failed write_all marks the entry, a failed flush does not
MarkedWriteOnly(to_remove, addr, result) ==
    IF result = "write_err" THEN to_remove \cup {addr} ELSE to_remove

\* the match on write_all and flush: Err(_) => to_remove.push(*addr)
Marked(to_remove, addr, result) ==
    IF result = "ok" THEN to_remove ELSE to_remove \cup {addr}

\* one iteration of `for (addr, client) in conn_map.iter_mut()`, in the
\* map's unspecified order: skip, or write_all and flush with their match
BroadcastVisit(c) ==
    /\ pc[c] \in BroadcastPcs
    /\ lock = c
    /\ \E addr \in pass.iter :
          IF ~Eligible(addr, pass.sender_addr, pass.include_sender)
          THEN /\ pass' = [pass EXCEPT !.iter = RestOfIter(@, addr, FALSE)]
               /\ wire' = NoWrite
               /\ UNCHANGED failures
          ELSE \E result \in {"ok", "write_err", "flush_err"} :
                  /\ result # "ok" => MayFail
                  /\ failures' = IF result = "ok" THEN failures ELSE failures + 1
                  /\ wire' = WriteTo(addr, pass.message, result)
                  /\ pass' = [pass EXCEPT
                        !.iter = RestOfIter(@, addr, result # "ok"),
                        !.wrote[addr] = @ + 1,
                        !.to_remove = Marked(@, addr, result),
                        !.failed = IF result = "ok" THEN @ ELSE @ \cup {addr}]
    /\ UNCHANGED <<pc, buf, username, formatted_msg, connections, lock,
                   reads, chats, retry>>
    /\ Logged
    /\ UNCHANGED cvars

\* the loop is over: remove the marked entries, Ok(()), the guard and the
\* locals are dropped; the relay loop's formatted_msg ends its iteration
BroadcastReturn(c) ==
    /\ pc[c] \in BroadcastPcs
    /\ lock = c
    /\ pass.iter = {}
    /\ connections' = Pruned(connections, pass.to_remove)
    /\ pass' = NoPass
    /\ lock' = NoThread
    /\ pc' = [pc EXCEPT ![c] = AfterBroadcast(pc[c])]
    /\ formatted_msg' = [formatted_msg EXCEPT ![c] = <<>>]
    /\ buf' = [buf EXCEPT ![c] = <<>>]
    /\ retry' = retry \ {c}
    /\ wire' = NoWrite
    /\ UNCHANGED <<username, reads, chats, failures>>
    /\ Logged
    /\ UNCHANGED cvars

(* ------------------- handle_client: the relay loop -------------------- *)

\* variant: a zero-length read goes straight to the removal
AfterReadNoNotice(n) == IF n = 0 THEN "hc_remove_lock" ELSE "relay"

\* where the loop goes when read returned Ok(n)
AfterRead(n) == IF n = 0 THEN "leave" ELSE "relay"

\* where handle_client goes when read returned Err(e): the `?` returns it
\* at once
AfterReadError == "failed"

\* let n = stream.read(&mut buf)?; if n == 0 { break; }
\* let message = String::from_utf8_lossy(&buf[..n]); format!;
\* std::io::stdout().write_all(..)?; std::io::stdout().flush()?;
ActiveRead(c) ==
    /\ pc[c] = "active"
    /\ \/ \* the peer closed: Ok(0)
          /\ pc' = [pc EXCEPT ![c] = AfterRead(0)]
          /\ UNCHANGED <<buf, username, formatted_msg, chats, failures, retry>>
       \/ \* Ok(n), n > 0, and the line is logged
          /\ chats < MaxChat
          /\ \E chunk \in ChatReads :
                /\ buf' = [buf EXCEPT ![c] = chunk]
                /\ formatted_msg' =
                      [formatted_msg EXCEPT
                          ![c] = FormattedMsg(username[c], FromUtf8Lossy(chunk))]
                /\ pc' = [pc EXCEPT ![c] = AfterRead(Len(chunk))]
          /\ chats' = chats + 1
          /\ UNCHANGED <<username, failures, retry>>
       \/ \* Ok(n), n > 0, and the write or the flush of stdout fails
          /\ chats < MaxChat
          /\ chats' = chats + 1
          /\ Fail(c)
       \/ \* Err(e)
          /\ MayFail
          /\ failures' = failures + 1
          /\ pc' = [pc EXCEPT ![c] = AfterReadError]
          /\ username' = [username EXCEPT ![c] = <<>>]
          /\ UNCHANGED <<buf, formatted_msg, chats, retry>>
    /\ wire' = NoWrite
    /\ UNCHANGED <<connections, lock, pass, reads>>
    /\ Logged
    /\ UNCHANGED cvars

(* --------------------- handle_client: the remove ---------------------- *)

\* let mut conn_map = connections.lock().unwrap();
HcRemoveLock(c) ==
    /\ pc[c] = "hc_remove_lock"
    /\ lock = NoThread
    /\ lock' = c
    /\ pc' = [pc EXCEPT ![c] = "hc_remove"]
    /\ wire' = NoWrite
    /\ UNCHANGED <<buf, username, formatted_msg, connections, pass, reads,
                   chats, failures, retry>>
    /\ Logged
    /\ UNCHANGED cvars

\* variant: the entry stays in the map
RemovedNone(conn_map, addr) == conn_map

\* conn_map.remove(&addr)
Removed(conn_map, addr) ==
    [a \in DOMAIN conn_map \ {addr} |-> conn_map[a]]

\* conn_map.remove(&addr); drop(conn_map); Ok(())
HcRemove(c) ==
    /\ pc[c] = "hc_remove"
    /\ lock = c
    /\ connections' = Removed(connections, c)
    /\ lock' = NoThread
    /\ pc' = [pc EXCEPT ![c] = "done"]
    /\ username' = [username EXCEPT ![c] = <<>>]
    /\ wire' = NoWrite
    /\ UNCHANGED <<buf, formatted_msg, pass, reads, chats, failures,
                   retry>>
    /\ Logged
    /\ UNCHANGED cvars

(* --------------------------- specification ---------------------------- *)

Next ==
    \E c \in Conns :
        \/ Accept(c)
        \/ GuPrompt(c)
        \/ GuRead(c)
        \/ GuReject(c)
        \/ GuLock(c)
        \/ GuCheck(c)
        \/ HcLock(c)
        \/ HcInsert(c)
        \/ BroadcastLock(c)
        \/ BroadcastVisit(c)
        \/ BroadcastReturn(c)
        \/ ActiveRead(c)
        \/ HcRemoveLock(c)
        \/ HcRemove(c)

Spec == Init /\ [][Next]_<<vars, cvars>>

(* ------------------- the relay among the admitted --------------------- *)

\* chunks the relay loops read in a run of OrderSpec
MaxLines == 2

\* what each peer typed at the prompt
Answer(addr) ==
    CASE addr = 1 -> <<"a", "l", "\n">>
      [] addr = 2 -> <<"b", "o", "\n">>
      [] OTHER -> <<"c", "y", "\n">>

\* the connections accepted so far
Admitted == {1, 2}

\* the handlers of the connections accepted so far have returned from
\* get_username with a name of their own (one candidate read each) and are
\* about to insert their sessions; the relay loops have MaxLines chunks to
\* read, and the history is kept
OrderInit ==
    /\ pc = [c \in Conns |-> IF c \in Admitted THEN "hc_lock" ELSE "idle"]
    /\ buf = [c \in Conns |-> IF c \in Admitted THEN Answer(c) ELSE <<>>]
    /\ username =
          [c \in Conns |->
              IF c \in Admitted THEN CandidateOf(Answer(c)) ELSE <<>>]
    /\ formatted_msg = [c \in Conns |-> <<>>]
    /\ connections = [a \in {} |-> [username |-> <<>>]]
    /\ lock = NoThread
    /\ pass = NoPass
    /\ wire = NoWrite
    /\ reads = Cardinality(Admitted)
    /\ chats = MaxChat - MaxLines
    /\ failures = 0
    /\ retry = {}
    /\ log = Logging
    /\ NoClients

\* no further connection is accepted
OrderNext ==
    \E c \in Conns :
        \/ HcLock(c)
        \/ HcInsert(c)
        \/ BroadcastLock(c)
        \/ BroadcastVisit(c)
        \/ BroadcastReturn(c)
        \/ ActiveRead(c)
        \/ HcRemoveLock(c)
        \/ HcRemove(c)

OrderSpec == OrderInit /\ [][OrderNext]_<<vars, cvars>>

(* ------------------- the handlers at the registry lock ---------------- *)

\* the statements a handler runs while its guard is alive: the uniqueness
\* check, the insert, the writes and the pruning of a broadcast pass, the
\* removal; none of them waits for a peer's input
Holds(c) ==
    \/ GuCheck(c)
    \/ HcInsert(c)
    \/ BroadcastVisit(c)
    \/ BroadcastReturn(c)
    \/ HcRemove(c)

\* connections.lock().unwrap() at lines 20, 69, 91 and 125
Acquires(c) ==
    \/ GuLock(c)
    \/ HcLock(c)
    \/ BroadcastLock(c)
    \/ HcRemoveLock(c)

\* the session of connection 1 is registered and in its relay loop; the
\* handlers of connections 2 and 3 have read their candidates and are
\* about to lock the registry for the uniqueness check; one more read can
\* be made and one more I/O operation can fail
LockInit ==
    /\ pc = [c \in Conns |-> IF c = 1 THEN "active" ELSE "gu_lock"]
    /\ buf = [c \in Conns |-> IF c = 1 THEN <<>> ELSE Answer(c)]
    /\ username = [c \in Conns |-> CandidateOf(Answer(c))]
    /\ formatted_msg = [c \in Conns |-> <<>>]
    /\ connections = [a \in {1} |-> [username |-> CandidateOf(Answer(1))]]
    /\ lock = NoThread
    /\ pass = NoPass
    /\ wire = NoWrite
    /\ reads = MaxReads - 1
    /\ chats = 0
    /\ failures = MaxFail - 1
    /\ retry = {}
    /\ log = Unlogged
    /\ NoClients

\* no further connection is accepted, and the candidates are free names
LockNext ==
    \E c \in Conns :
        \/ GuLock(c)
        \/ GuCheck(c)
        \/ HcLock(c)
        \/ HcInsert(c)
        \/ BroadcastLock(c)
        \/ BroadcastVisit(c)
        \/ BroadcastReturn(c)
        \/ ActiveRead(c)
        \/ HcRemoveLock(c)
        \/ HcRemove(c)

\* every handler thread is scheduled: a statement under the guard that can
\* run does run (socket writes complete), and a lock() call that could
\* return from some point on does return.  Nothing is assumed about reads
\* of a socket, which wait for the peer.
LockSpec ==
    /\ LockInit
    /\ [][LockNext]_<<vars, cvars>>
    /\ \A c \in Conns : WF_<<vars, cvars>>(Holds(c))
    /\ \A c \in Conns : WF_<<vars, cvars>>(Acquires(c))

(* ============================ the client ============================== *)
(* src/client/src holds the App twice: app.rs (with events.rs) and the    *)
(* self-contained main.rs.  `build` says which of the two a run is about. *)
(* The server side of a client's socket is the relay of handle_client     *)
(* (FormattedMsg, JoinMessage) and the end of the stream.                 *)

\* what happens to the clients in a run: key events, timer ticks, notices
\* of the server, ends of a stream and writes the network splits, together
MaxEvents == 3

Builds == {"app.rs", "main.rs"}

\* "System".to_string()
SYSTEM ==
    <<"S", "y", "s", "t", "e", "m">>

\* format!("Failed to lock stream: {}", e)
FAILED_LOCK ==
    <<"F", "a", "i", "l", "e", "d", " ", "t", "o", " ", "l", "o", "c", "k",
      " ", "s", "t", "r", "e", "a", "m", ":", " ">>

\* format!("Failed to write to server: {}", e)
FAILED_WRITE ==
    <<"F", "a", "i", "l", "e", "d", " ", "t", "o", " ", "w", "r", "i", "t",
      "e", " ", "t", "o", " ", "s", "e", "r", "v", "e", "r", ":", " ">>

\* format!("Failed to send message: {}", e)
FAILED_SEND ==
    <<"F", "a", "i", "l", "e", "d", " ", "t", "o", " ", "s", "e", "n", "d",
      " ", "m", "e", "s", "s", "a", "g", "e", ":", " ">>

\* "Server disconnected".to_string()
SERVER_DISCONNECTED ==
    <<"S", "e", "r", "v", "e", "r", " ", "d", "i", "s", "c", "o", "n", "n",
      "e", "c", "t", "e", "d">>

\* format!("Connection error: {}", e)
CONNECTION_ERROR ==
    <<"C", "o", "n", "n", "e", "c", "t", "i", "o", "n", " ", "e", "r", "r",
      "o", "r", ":", " ">>

\* the Display of an io::Error, whatever the operating system says
ErrorText == <<"e", "r", "r">>

\* the usernames the two clients were started with (args.username)
Usernames ==
    { [k \in Clients |-> IF k = 1 THEN u ELSE <<"b", "o">>] :
         u \in { <<"a", "l">>, <<"a", ":", "b">> } }

\* the characters the user types
Typed == {"h", " "}

KeyChar(ch) == [code |-> "Char", ch |-> ch, ctrl |-> FALSE]
CtrlC == [code |-> "Char", ch |-> "c", ctrl |-> TRUE]
Enter == [code |-> "Enter", ch |-> "", ctrl |-> FALSE]

\* the key events crossterm::event::read() returns
KeyEvents == {KeyChar(ch) : ch \in Typed} \cup {Enter, CtrlC}

\* Event::Input(key_event)
Input(key_event) == [type |-> "Input", key |-> key_event]

\* Event::ServerMessage(message); `cause` records where the text came from
ServerMessage(message, cause) ==
    [type |-> "ServerMessage", message |-> message, cause |-> cause]

\* Message { author, content }; `cause` records what made the entry
Message(author, content, cause) ==
    [author |-> author, content |-> content, cause |-> cause]

\* the history entries main pushes before the UI starts: the text the
\* server sent after the username, here the client's own join notice
InitialMessages(u) ==
    << Message(SYSTEM, Trim(JoinMessage(u)), [kind |-> "initial"]) >>

ClientInit ==
    /\ ServerInit
    /\ build \in Builds
    /\ app_username \in Usernames
    /\ running = [k \in Clients |-> TRUE]
    /\ input_text = [k \in Clients |-> <<>>]
    /\ cursor_position = [k \in Clients |-> 0]
    /\ messages = [k \in Clients |-> InitialMessages(app_username[k])]
    /\ rx = [k \in Clients |-> <<>>]
    /\ reader = [k \in Clients |-> "reading"]
    /\ to_server = [k \in Clients |-> <<>>]
    /\ from_server = [k \in Clients |-> <<>>]
    /\ keys = 0
    /\ arrivals = 0
    /\ cursor_visible = [k \in Clients |-> TRUE]
    /\ ticks = 0
    /\ sent = [k \in Clients |-> 0]
    /\ handled = [k \in Clients |-> 0]
    /\ stage = [k \in Clients |-> "ui"]
    /\ initial_messages = [k \in Clients |-> <<>>]

(* --------------------------- the producers ---------------------------- *)

\* the events the producers of a run have been given so far
Produced == keys + arrivals + ticks

\* the channel numbers the events in the order of the sends
RECURSIVE Numbered(_, _)
Numbered(events, n) ==
    IF events = <<>> THEN <<>>
    ELSE << [event |-> Head(events), seq |-> n + 1] >>
         \o Numbered(Tail(events), n + 1)

\* variant: the channel hands out the newest event first
TxSendFirst(channel, events, n) == Numbered(events, n) \o channel

\* tx.send(event) for each of `events`, n events having been sent before
TxSend(channel, events, n) == channel \o Numbered(events, n)

\* a producer of client k sends `events`
Forward(k, events) ==
    /\ rx' = [rx EXCEPT ![k] = TxSend(@, events, sent[k])]
    /\ sent' = [sent EXCEPT ![k] = @ + Len(events)]

\* rx.recv().unwrap(): the event the channel hands out
Recv(channel) == Head(channel).event

\* the consumer of client k takes the event the channel hands out
Receive(k) ==
    /\ rx' = [rx EXCEPT ![k] = Tail(@)]
    /\ handled' = [handled EXCEPT ![k] = Head(rx[k]).seq]

(* --------------------------------------- ---------------------------- *)

\* the clients whose user is at the keyboard in a run; the other client
\* only listens
Typists == {1}

\* handle_input_events: crossterm::event::read(), tx.send(Event::Input(..))
KeyPress(k) ==
    /\ k \in Typists
    /\ running[k]
    /\ Produced < MaxEvents
    /\ keys' = keys + 1
    /\ \E key_event \in KeyEvents : Forward(k, << Input(key_event) >>)
    /\ UNCHANGED <<build, app_username, running, input_text, cursor_position,
                   messages, reader, to_server, from_server, arrivals,
                   cursor_visible, ticks, handled>>
    /\ UNCHANGED <<stage, initial_messages>>
    /\ UNCHANGED vars

\* message.trim().is_empty()
IsBlank(message) == Trim(message) = <<>>

\* variant: every chunk is sent
EmittedAlways(chunk) ==
    << ServerMessage(FromUtf8Lossy(chunk.bytes), chunk.cause) >>

\* what the network producer sends for a chunk: nothing when it is blank
Emitted(chunk) ==
    IF IsBlank(FromUtf8Lossy(chunk.bytes)) THEN <<>>
    ELSE << ServerMessage(FromUtf8Lossy(chunk.bytes), chunk.cause) >>

\* what the server writes to a client's socket: the bytes of one write
Chunk(bytes, cause) == [bytes |-> bytes, cause |-> cause]

\* stream.read(&mut buf) returns the bytes of one write of the server
Whole(socket) == [chunk |-> Head(socket), left |-> Tail(socket)]

\* ... or of two writes at once
Joined(socket) ==
    [chunk |-> Chunk(socket[1].bytes \o socket[2].bytes,
                     [kind |-> "joined",
                      parts |-> <<socket[1].cause, socket[2].cause>>]),
     left |-> Tail(Tail(socket))]

\* ... or of one write without its last byte, which stays in the socket
\* for the next read
Split(socket) ==
    LET bytes == Head(socket).bytes IN
       [chunk |-> Chunk(SubSeq(bytes, 1, Len(bytes) - 1),
                        [kind |-> "part", of |-> Head(socket).cause]),
        left |-> << Chunk(<<bytes[Len(bytes)]>>,
                          [kind |-> "rest", of |-> Head(socket).cause]) >>
                 \o Tail(socket)]

\* ... or of one write without its last two bytes
SplitEarlier(socket) ==
    LET bytes == Head(socket).bytes IN
       [chunk |-> Chunk(SubSeq(bytes, 1, Len(bytes) - 2),
                        [kind |-> "part", of |-> Head(socket).cause]),
        left |-> << Chunk(SubSeq(bytes, Len(bytes) - 1, Len(bytes)),
                          [kind |-> "rest", of |-> Head(socket).cause]) >>
                 \o Tail(socket)]

\* stream.read(&mut buf) on a TCP stream returns bytes, not writes
ReadOutcomes(socket) ==
    {Whole(socket)}
    \cup (IF Len(socket) >= 2 THEN {Joined(socket)} ELSE {})
    \cup (IF Len(Head(socket).bytes) >= 2 THEN {Split(socket)} ELSE {})
    \cup (IF Len(Head(socket).bytes) >= 3 THEN {SplitEarlier(socket)} ELSE {})

\* handle_server_messages, Ok(n): from_utf8_lossy, and the event unless the
\* text is blank; a write the network splits counts as an arrival
NetRead(k) ==
    /\ running[k]
    /\ reader[k] = "reading"
    /\ from_server[k] # <<>>
    /\ \E read \in ReadOutcomes(from_server[k]) :
          /\ Forward(k, Emitted(read.chunk))
          /\ from_server' = [from_server EXCEPT ![k] = read.left]
          /\ IF read.chunk.cause.kind = "part"
             THEN Produced < MaxEvents /\ arrivals' = arrivals + 1
             ELSE arrivals' = arrivals
    /\ UNCHANGED <<build, app_username, running, input_text, cursor_position,
                   messages, reader, to_server, keys,
                   cursor_visible, ticks, handled>>
    /\ UNCHANGED <<stage, initial_messages>>
    /\ UNCHANGED vars

\* the notice sent when the read returns Ok(0) or Err(e)
TerminationNotice(result) ==
    IF result = "eof" THEN SERVER_DISCONNECTED ELSE CONNECTION_ERROR \o ErrorText

\* handle_server_messages, Ok(0) or Err(e): one notice, then break
NetEnd(k) ==
    /\ running[k]
    /\ reader[k] = "reading"
    /\ from_server[k] = <<>>
    /\ Produced < MaxEvents
    /\ arrivals' = arrivals + 1
    /\ \E result \in {"eof", "err"} :
          Forward(k, << ServerMessage(TerminationNotice(result),
                                      [kind |-> "end"]) >>)
    /\ reader' = [reader EXCEPT ![k] = "stopped"]
    /\ UNCHANGED <<build, app_username, running, input_text, cursor_position,
                   messages, to_server, from_server, keys,
                   cursor_visible, ticks, handled>>
    /\ UNCHANGED <<stage, initial_messages>>
    /\ UNCHANGED vars

\* Event::CursorBlink
CursorBlink == [type |-> "CursorBlink"]

\* run_cursor_blink_thread: tx.send(Event::CursorBlink), then sleep
Tick(k) ==
    /\ running[k]
    /\ Produced < MaxEvents
    /\ ticks' = ticks + 1
    /\ Forward(k, << CursorBlink >>)
    /\ UNCHANGED <<build, app_username, running, input_text, cursor_position,
                   messages, reader, to_server, from_server, keys, arrivals,
                   cursor_visible, handled>>
    /\ UNCHANGED <<stage, initial_messages>>
    /\ UNCHANGED vars

(* ----------------------- the server, seen by clients ------------------ *)

\* handle_client's relay loop for the session of client a: one read returns
\* the oldest line a wrote, and broadcast_message writes the formatted line
\* to every other session
Relay(a) ==
    /\ to_server[a] # <<>>
    /\ to_server' = [to_server EXCEPT ![a] = Tail(@)]
    /\ from_server' =
          [b \in Clients |->
              IF b = a THEN from_server[b]
              ELSE Append(from_server[b],
                      Chunk(FormattedMsg(app_username[a],
                                         FromUtf8Lossy(Head(to_server[a]).bytes)),
                            [kind |-> "relay", from |-> a,
                             text |-> Head(to_server[a]).text]))]
    /\ UNCHANGED <<build, app_username, running, input_text, cursor_position,
                   messages, rx, reader, keys, arrivals,
                   cursor_visible, ticks, sent, handled>>
    /\ UNCHANGED <<stage, initial_messages>>
    /\ UNCHANGED vars

\* the join and leave notices about the user u
Notices(u) == {JoinMessage(u), LeaveMessage(u)}

\* broadcast_message writes a join or leave notice about another session
\* to the session of client b
Notice(b) ==
    /\ Produced < MaxEvents
    /\ arrivals' = arrivals + 1
    /\ \E a \in Clients \ {b} :
          \E notice \in Notices(app_username[a]) :
             from_server' =
                [from_server EXCEPT
                    ![b] = Append(@, Chunk(notice, [kind |-> "notice"]))]
    /\ UNCHANGED <<build, app_username, running, input_text, cursor_position,
                   messages, rx, reader, to_server, keys,
                   cursor_visible, ticks, sent, handled>>
    /\ UNCHANGED <<stage, initial_messages>>
    /\ UNCHANGED vars

(* --------------------------- the consumer ----------------------------- *)

\* variant: the history keeps its two newest entries
PushWindow(history, entries) ==
    LET all == history \o entries IN
       IF Len(all) <= 2 THEN all ELSE SubSeq(all, Len(all) - 1, Len(all))

\* self.messages.push(entry) for each of `entries`
Push(history, entries) == history \o entries

\* self.input_text.insert(self.cursor_position, c)
InsertAt(text, pos, ch) ==
    SubSeq(text, 1, pos) \o <<ch>> \o SubSeq(text, pos + 1, Len(text))

\* format!("{}\n", self.input_text)
Line(text) == text \o <<"\n">>

\* the entry pushed before the write: app.rs pushes Message { author:
\* self.username, content: message_content }, main.rs pushes nothing
LocalEcho(b, u, text) ==
    IF b = "app.rs" THEN << Message(u, text, [kind |-> "echo"]) >> ELSE <<>>

\* what write_stream.lock(), write_all and flush can come to
SendOutcomes == {"ok", "lock_err", "write_err", "flush_err"}

\* variant: a failed write_all is not reported
FailureNoticeWriteSilent(outcome) ==
    CASE outcome \in {"ok", "write_err"} -> <<>>
      [] outcome = "lock_err" ->
            << Message(SYSTEM, FAILED_LOCK \o ErrorText, [kind |-> "failure"]) >>
      [] outcome = "flush_err" ->
            << Message(SYSTEM, FAILED_SEND \o ErrorText, [kind |-> "failure"]) >>

\* the entry pushed in the Err arm the outcome leads to
FailureNotice(outcome) ==
    CASE outcome = "ok" -> <<>>
      [] outcome = "lock_err" ->
            << Message(SYSTEM, FAILED_LOCK \o ErrorText, [kind |-> "failure"]) >>
      [] outcome = "write_err" ->
            << Message(SYSTEM, FAILED_WRITE \o ErrorText, [kind |-> "failure"]) >>
      [] outcome = "flush_err" ->
            << Message(SYSTEM, FAILED_SEND \o ErrorText, [kind |-> "failure"]) >>

\* the line reaches the socket when write_all returned Ok; `text` and
\* `flushed` record what was submitted and whether flush returned Ok
Written(outcome, text) ==
    IF outcome \in {"ok", "flush_err"}
    THEN << [bytes |-> Line(text), text |-> text, flushed |-> outcome = "ok"] >>
    ELSE <<>>

\* KeyCode::Enter: if !self.input_text.trim().is_empty() { echo, send,
\* clear }
Submit(k) ==
    IF IsBlank(input_text[k])
    THEN UNCHANGED <<messages, to_server, input_text, cursor_position>>
    ELSE \E outcome \in SendOutcomes :
            /\ messages' =
                  [messages EXCEPT
                      ![k] = Push(@, LocalEcho(build, app_username[k],
                                               input_text[k])
                                     \o FailureNotice(outcome))]
            /\ to_server' =
                  [to_server EXCEPT ![k] = @ \o Written(outcome, input_text[k])]
            /\ input_text' = [input_text EXCEPT ![k] = <<>>]
            /\ cursor_position' = [cursor_position EXCEPT ![k] = 0]

\* App::run: rx.recv() returned Event::Input: handle_key_event
HandleInput(k) ==
    /\ running[k]
    /\ rx[k] # <<>>
    /\ Recv(rx[k]).type = "Input"
    /\ Receive(k)
    /\ LET key_event == Recv(rx[k]).key IN
          CASE key_event = CtrlC ->
                  /\ running' = [running EXCEPT ![k] = FALSE]
                  /\ UNCHANGED <<messages, to_server, input_text, cursor_position>>
            [] key_event.code = "Char" /\ key_event # CtrlC ->
                  /\ input_text' =
                        [input_text EXCEPT
                            ![k] = InsertAt(@, cursor_position[k], key_event.ch)]
                  /\ cursor_position' = [cursor_position EXCEPT ![k] = @ + 1]
                  /\ UNCHANGED <<running, messages, to_server>>
            [] key_event.code = "Enter" ->
                  /\ Submit(k)
                  /\ UNCHANGED running
    /\ UNCHANGED <<build, app_username, reader, from_server, keys, arrivals,
                   cursor_visible, ticks, sent>>
    /\ UNCHANGED <<stage, initial_messages>>
    /\ UNCHANGED vars

\* variant: the index of the last colon
FindLast(message) ==
    IF \E i \in 1..Len(message) : message[i] = ":"
    THEN CHOOSE i \in 1..Len(message) :
            /\ message[i] = ":"
            /\ \A j \in (i + 1)..Len(message) : message[j] # ":"
    ELSE 0

\* message.find(':'): the index of the first colon, 0 when there is none
Find(message) ==
    IF \E i \in 1..Len(message) : message[i] = ":"
    THEN CHOOSE i \in 1..Len(message) :
            /\ message[i] = ":"
            /\ \A j \in 1..(i - 1) : message[j] # ":"
    ELSE 0

\* the entry the ServerMessage arm pushes for a trimmed, non-empty message
Parsed(message, cause) ==
    IF Find(message) > 0
    THEN Message(Trim(SubSeq(message, 1, Find(message) - 1)),
                 Trim(SubSeq(message, Find(message) + 1, Len(message))),
                 cause)
    ELSE Message(SYSTEM, message, cause)

\* the lines of a text: its parts between line feeds
RECURSIVE Lines(_)
Lines(text) ==
    IF \A i \in 1..Len(text) : text[i] # "\n" THEN <<text>>
    ELSE LET i == CHOOSE i \in 1..Len(text) :
                     text[i] = "\n" /\ \A j \in 1..(i - 1) : text[j] # "\n"
         IN <<SubSeq(text, 1, i - 1)>> \o Lines(SubSeq(text, i + 1, Len(text)))

\* the entries of the lines that are not blank, in order
RECURSIVE ParsedLines(_, _)
ParsedLines(lines, cause) ==
    IF lines = <<>> THEN <<>>
    ELSE (IF Trim(Head(lines)) = <<>> THEN <<>>
          ELSE << Parsed(Trim(Head(lines)), cause) >>)
         \o ParsedLines(Tail(lines), cause)

\* variant: one entry for each line of the chunk
PushedPerLine(text, cause) == ParsedLines(Lines(text), cause)

\* let message = message.trim().to_string(); if !message.is_empty() { push }
Pushed(text, cause) ==
    IF Trim(text) = <<>> THEN <<>> ELSE << Parsed(Trim(text), cause) >>

\* variant: the loop does not test self.running
HandleServerMessageAnyway(k) ==
    /\ rx[k] # <<>>
    /\ Recv(rx[k]).type = "ServerMessage"
    /\ Receive(k)
    /\ messages' =
          [messages EXCEPT
              ![k] = Push(@, Pushed(Recv(rx[k]).message, Recv(rx[k]).cause))]
    /\ UNCHANGED <<build, app_username, running, input_text, cursor_position,
                   reader, to_server, from_server, keys, arrivals,
                   cursor_visible, ticks, sent>>
    /\ UNCHANGED <<stage, initial_messages>>
    /\ UNCHANGED vars

\* App::run: rx.recv() returned Event::ServerMessage
HandleServerMessage(k) ==
    /\ running[k]
    /\ rx[k] # <<>>
    /\ Recv(rx[k]).type = "ServerMessage"
    /\ Receive(k)
    /\ messages' =
          [messages EXCEPT
              ![k] = Push(@, Pushed(Recv(rx[k]).message, Recv(rx[k]).cause))]
    /\ UNCHANGED <<build, app_username, running, input_text, cursor_position,
                   reader, to_server, from_server, keys, arrivals,
                   cursor_visible, ticks, sent>>
    /\ UNCHANGED <<stage, initial_messages>>
    /\ UNCHANGED vars

\* App::run: rx.recv() returned Event::CursorBlink: the cursor blinks when
\* the last key was typed a second ago or earlier, and else is shown
HandleCursorBlink(k) ==
    /\ running[k]
    /\ rx[k] # <<>>
    /\ Recv(rx[k]).type = "CursorBlink"
    /\ Receive(k)
    /\ \E elapsed \in {0, 1} :
          cursor_visible' =
             [cursor_visible EXCEPT ![k] = IF elapsed >= 1 THEN ~@ ELSE TRUE]
    /\ UNCHANGED <<build, app_username, running, input_text, cursor_position,
                   messages, reader, to_server, from_server, keys, arrivals,
                   ticks, sent>>
    /\ UNCHANGED <<stage, initial_messages>>
    /\ UNCHANGED vars

ClientNext ==
    \E k \in Clients :
        \/ KeyPress(k)
        \/ NetRead(k)
        \/ NetEnd(k)
        \/ Relay(k)
        \/ Notice(k)
        \/ Tick(k)
        \/ HandleInput(k)
        \/ HandleServerMessage(k)
        \/ HandleCursorBlink(k)

ClientSpec == ClientInit /\ [][ClientNext]_<<vars, cvars>>

(* ------------------- the client before App::run ---------------------- *)
(* main.rs 45-133: the prompt, the username, the loop that collects the   *)
(* server's answer, then the App and its threads.  The connection does    *)
(* not fail in these runs: a read ends with bytes or with its timeout.    *)

\* args.username of the client that connects: a free name, the name of the
\* registered session in another case, the reserved name, and nothing
StartNames ==
    { <<"a", "l">>, <<"B", "O">>, <<"s", "y", "s", "t", "e", "m">>, <<>> }

\* "Username cannot be empty"
CANNOT_BE_EMPTY == SubSeq(EMPTY_REJECTION, 1, 24)

\* response.contains(pattern)
Contains(text, pattern) ==
    \E i \in 0..(Len(text) - Len(pattern)) :
        SubSeq(text, i + 1, i + Len(pattern)) = pattern

\* client 1 has connected and its handler is about to prompt; the session
\* of client 2, whose process is not modelled, is registered as "bo"
StartInit ==
    /\ pc = [c \in Conns |->
                CASE c = 1 -> "gu_prompt" [] c = 2 -> "active" [] OTHER -> "idle"]
    /\ buf = [c \in Conns |-> <<>>]
    /\ username = [c \in Conns |-> IF c = 2 THEN <<"b", "o">> ELSE <<>>]
    /\ formatted_msg = [c \in Conns |-> <<>>]
    /\ connections = [a \in {2} |-> [username |-> <<"b", "o">>]]
    /\ lock = NoThread
    /\ pass = NoPass
    /\ wire = NoWrite
    /\ reads = 0
    /\ chats = 0
    /\ failures = 0
    /\ retry = {}
    /\ log = Unlogged
    /\ build \in Builds
    /\ app_username \in
          { [k \in Clients |-> IF k = 1 THEN u ELSE <<"b", "o">>] :
               u \in StartNames }
    /\ running = [k \in Clients |-> FALSE]
    /\ input_text = [k \in Clients |-> <<>>]
    /\ cursor_position = [k \in Clients |-> 0]
    /\ messages = [k \in Clients |-> <<>>]
    /\ rx = [k \in Clients |-> <<>>]
    /\ reader = [k \in Clients |-> "stopped"]
    /\ to_server = [k \in Clients |-> <<>>]
    /\ from_server = [k \in Clients |-> <<>>]
    /\ keys = 0
    /\ arrivals = 0
    /\ cursor_visible = [k \in Clients |-> FALSE]
    /\ ticks = 0
    /\ sent = [k \in Clients |-> 0]
    /\ handled = [k \in Clients |-> 0]
    /\ stage = [k \in Clients |-> IF k = 1 THEN "prompt" ELSE "none"]
    /\ initial_messages = [k \in Clients |-> <<>>]

\* get_username for the connection of client k: write_all(b"Enter your
\* username: ") and flush
Prompts(k) ==
    /\ pc[k] = "gu_prompt"
    /\ pc' = [pc EXCEPT ![k] = "gu_read"]
    /\ from_server' =
          [from_server EXCEPT ![k] = Append(@, Chunk(PROMPT, [kind |-> "prompt"]))]
    /\ UNCHANGED <<buf, username, formatted_msg, connections, lock, pass,
                   wire, reads, chats, failures, retry, log>>
    /\ UNCHANGED <<build, app_username, running, input_text, cursor_position,
                   messages, rx, reader, to_server, keys, arrivals,
                   cursor_visible, ticks, sent, handled, stage,
                   initial_messages>>

\* where get_username and handle_client go with the candidate u: to one of
\* the rejections, or through the insert and the join broadcast to the
\* relay loop
AfterAnswer(conn_map, u) ==
    IF AfterCandidate(u) # "gu_lock" THEN AfterCandidate(u)
    ELSE IF AfterCheck(UsernameTaken(conn_map, u)) # "hc_lock"
         THEN AfterCheck(UsernameTaken(conn_map, u))
    ELSE "active"

\* get_username for the connection of client k: the read returns the oldest
\* line the client wrote; the candidate is rejected, with the rejection
\* written to the client, or it is returned, and handle_client inserts the
\* session and broadcasts the join notice to every session
ReadsCandidate(k) ==
    /\ pc[k] = "gu_read"
    /\ to_server[k] # <<>>
    /\ reads < MaxReads
    /\ reads' = reads + 1
    /\ to_server' = [to_server EXCEPT ![k] = Tail(@)]
    /\ LET u == CandidateOf(Head(to_server[k]).bytes)
           at == AfterAnswer(connections, u)
       IN IF at \in RejectPcs
          THEN /\ pc' = [pc EXCEPT ![k] = "gu_prompt"]
               /\ from_server' =
                     [from_server EXCEPT
                         ![k] = Append(@, Chunk(RejectionAt(at),
                                                [kind |-> "rejection"]))]
               /\ UNCHANGED <<username, connections>>
          ELSE /\ pc' = [pc EXCEPT ![k] = at]
               /\ username' = [username EXCEPT ![k] = u]
               /\ connections' = Inserted(connections, k, u)
               /\ from_server' =
                     [b \in Clients |->
                         Append(from_server[b],
                                Chunk(JoinMessage(u), [kind |-> "notice"]))]
    /\ UNCHANGED <<buf, formatted_msg, lock, pass, wire, chats, failures,
                   retry, log>>
    /\ UNCHANGED <<build, app_username, running, input_text, cursor_position,
                   messages, rx, reader, keys, arrivals, cursor_visible,
                   ticks, sent, handled, stage, initial_messages>>

\* the relay loop of an admitted session
RelaysLine(k) ==
    /\ pc[k] = "active"
    /\ Relay(k)

\* a read of main takes bytes off the socket; a write the network splits
\* counts as an arrival
Takes(k, read) ==
    /\ from_server' = [from_server EXCEPT ![k] = read.left]
    /\ IF read.chunk.cause.kind = "part"
       THEN Produced < MaxEvents /\ arrivals' = arrivals + 1
       ELSE arrivals' = arrivals

\* let n = stream.read(&mut buf)?; let _prompt = ...  (lines 49-50)
ReadPrompt(k) ==
    /\ stage[k] = "prompt"
    /\ from_server[k] # <<>>
    /\ \E read \in ReadOutcomes(from_server[k]) : Takes(k, read)
    /\ stage' = [stage EXCEPT ![k] = "send"]
    /\ UNCHANGED <<build, app_username, running, input_text, cursor_position,
                   messages, rx, reader, to_server, keys, cursor_visible,
                   ticks, sent, handled, initial_messages>>
    /\ UNCHANGED vars

\* stream.write_all(format!("{}\n", args.username))?; stream.flush()?;
SendUsername(k) ==
    /\ stage[k] = "send"
    /\ to_server' =
          [to_server EXCEPT
              ![k] = Append(@, [bytes |-> Line(app_username[k]),
                                text |-> app_username[k], flushed |-> TRUE])]
    /\ stage' = [stage EXCEPT ![k] = "read_first"]
    /\ UNCHANGED <<build, app_username, running, input_text, cursor_position,
                   messages, rx, reader, from_server, keys, arrivals,
                   cursor_visible, ticks, sent, handled, initial_messages>>
    /\ UNCHANGED vars

\* where the loop goes after the read at line 60 returned `response`
AfterResponse(response) ==
    IF Contains(response, CANNOT_BE_EMPTY) THEN "rejected" ELSE "read_more"

\* the read at the top of the loop (line 60), which blocks the first time
\* and has the 100 ms timeout of line 72 from the second iteration on: the
\* `?` returns the timeout's Err from main
ReadInitial(k) ==
    /\ stage[k] \in {"read_first", "read_again"}
    /\ \/ /\ from_server[k] # <<>>
          /\ \E read \in ReadOutcomes(from_server[k]) :
                LET response == FromUtf8Lossy(read.chunk.bytes) IN
                   /\ Takes(k, read)
                   /\ stage' = [stage EXCEPT ![k] = AfterResponse(response)]
                   /\ initial_messages' =
                         [initial_messages EXCEPT
                             ![k] = IF AfterResponse(response) = "rejected"
                                    THEN @ ELSE Append(@, response)]
       \/ /\ stage[k] = "read_again"
          /\ stage' = [stage EXCEPT ![k] = "error"]
          /\ UNCHANGED <<from_server, arrivals, initial_messages>>
    /\ UNCHANGED <<build, app_username, running, input_text, cursor_position,
                   messages, rx, reader, to_server, keys, cursor_visible,
                   ticks, sent, handled>>
    /\ UNCHANGED vars

\* for msg in initial_messages { if !msg.trim().is_empty() { push(Message
\* { author: "System", content: msg.trim() }) } }
RECURSIVE InitialEntries(_)
InitialEntries(msgs) ==
    IF msgs = <<>> THEN <<>>
    ELSE (IF IsBlank(Head(msgs)) THEN <<>>
          ELSE << Message(SYSTEM, Trim(Head(msgs)), [kind |-> "initial"]) >>)
         \o InitialEntries(Tail(msgs))

\* the read under the timeout (line 73): more bytes are kept and the loop
\* goes round; when the timeout expires (bytes of the server may still be
\* on their way) the loop ends, and main builds the App with the initial
\* messages, spawns the producers and calls App::run
ReadMore(k) ==
    /\ stage[k] = "read_more"
    /\ \/ /\ from_server[k] # <<>>
          /\ \E read \in ReadOutcomes(from_server[k]) :
                /\ Takes(k, read)
                /\ initial_messages' =
                      [initial_messages EXCEPT
                          ![k] = Append(@, FromUtf8Lossy(read.chunk.bytes))]
          /\ stage' = [stage EXCEPT ![k] = "read_again"]
          /\ UNCHANGED <<running, messages, reader, cursor_visible>>
       \/ /\ stage' = [stage EXCEPT ![k] = "ui"]
          /\ messages' =
                [messages EXCEPT ![k] = InitialEntries(initial_messages[k])]
          /\ initial_messages' = [initial_messages EXCEPT ![k] = <<>>]
          /\ running' = [running EXCEPT ![k] = TRUE]
          /\ reader' = [reader EXCEPT ![k] = "reading"]
          /\ cursor_visible' = [cursor_visible EXCEPT ![k] = TRUE]
          /\ UNCHANGED <<from_server, arrivals>>
    /\ UNCHANGED <<build, app_username, input_text, cursor_position, rx,
                   to_server, keys, ticks, sent, handled>>
    /\ UNCHANGED vars

StartNext ==
    \E k \in Clients :
        \/ Prompts(k)
        \/ ReadsCandidate(k)
        \/ RelaysLine(k)
        \/ ReadPrompt(k)
        \/ SendUsername(k)
        \/ ReadInitial(k)
        \/ ReadMore(k)
        \/ KeyPress(k)
        \/ HandleInput(k)

StartSpec == StartInit /\ [][StartNext]_<<vars, cvars>>

(* ------------------------- the input editor --------------------------- *)
(* handle_key_event of the App (app.rs and main.rs; input_widget.rs holds  *)
(* the same editor).  input_text is a String, that is UTF-8 bytes, and      *)
(* cursor_position is a byte offset into it.  An index that is not on a    *)
(* char boundary makes insert, remove, drain and slicing panic.  The       *)
(* rendering of the input line is not modelled.                            *)

\* the longest input line of a run, in bytes
MaxBytes == 4

\* the characters the user types, as their UTF-8 bytes: the ASCII ones and
\* U+00E9, which is the two bytes C3 A9
TypedChars == {<<ch>> : ch \in Typed} \cup {<<"C3", "A9">>}

\* str::is_char_boundary(index)
IsCharBoundary(text, index) ==
    \/ index = 0
    \/ index = Len(text)
    \/ index < Len(text) /\ text[index + 1] # "A9"

\* char::len_utf8 of the character that starts at `index`
LenUtf8(text, index) == IF text[index + 1] = "C3" THEN 2 ELSE 1

\* the closure of the word motions: c.is_whitespace() || c == '\'' || ...
IsWordBoundary(ch) ==
    IsWhitespace(ch) \/ ch \in {"'", "\"", ";", ",", ".", "!", "?"}

\* str::trim_end_matches with that closure
RECURSIVE TrimEndMatches(_)
TrimEndMatches(text) ==
    IF text # <<>> /\ IsWordBoundary(text[Len(text)])
    THEN TrimEndMatches(SubSeq(text, 1, Len(text) - 1))
    ELSE text

\* str::rfind with that closure: the offset of the last boundary
\* character, -1 for None
RFindBoundary(text) ==
    IF \E i \in 1..Len(text) : IsWordBoundary(text[i])
    THEN (CHOOSE i \in 1..Len(text) :
             /\ IsWordBoundary(text[i])
             /\ \A j \in (i + 1)..Len(text) : ~IsWordBoundary(text[j])) - 1
    ELSE -1

\* str::find with that closure: the offset of the first boundary
\* character, -1 for None
FindBoundary(text) ==
    IF \E i \in 1..Len(text) : IsWordBoundary(text[i])
    THEN (CHOOSE i \in 1..Len(text) :
             /\ IsWordBoundary(text[i])
             /\ \A j \in 1..(i - 1) : ~IsWordBoundary(text[j])) - 1
    ELSE -1

\* str::find with the negated closure: the offset of the first character
\* of a word, -1 for None
FindWord(text) ==
    IF \E i \in 1..Len(text) : ~IsWordBoundary(text[i])
    THEN (CHOOSE i \in 1..Len(text) :
             /\ ~IsWordBoundary(text[i])
             /\ \A j \in 1..(i - 1) : IsWordBoundary(text[j])) - 1
    ELSE -1

\* String::drain(from..to): the text without these bytes
Drained(text, from, to) ==
    SubSeq(text, 1, from) \o SubSeq(text, to + 1, Len(text))

\* variant: move_cursor_right without its test
MoveCursorRightUnchecked(text, pos) == pos + 1

\* move_cursor_right
MoveCursorRight(text, pos) == IF pos < Len(text) THEN pos + 1 ELSE pos

\* move_cursor_left
MoveCursorLeft(text, pos) == IF pos > 0 THEN pos - 1 ELSE pos

\* the position the previous word begins at: last_boundary_pos + 1, or 0
\* (move_cursor_word_left and Alt+Backspace)
WordStartBefore(text, pos) ==
    LET trimmed == TrimEndMatches(SubSeq(text, 1, pos))
        last_boundary_pos == RFindBoundary(trimmed)
    IN IF last_boundary_pos >= 0 THEN last_boundary_pos + 1 ELSE 0

\* move_cursor_word_right, past the early return
WordStartAfter(text, pos) ==
    LET next_boundary_pos == FindBoundary(SubSeq(text, pos + 1, Len(text)))
        new_pos == pos + next_boundary_pos
        non_boundary_pos == FindWord(SubSeq(text, new_pos + 1, Len(text)))
    IN IF next_boundary_pos >= 0
       THEN IF non_boundary_pos >= 0 THEN new_pos + non_boundary_pos
            ELSE Len(text)
       ELSE Len(text)

\* the key event leaves the editor with this text and this cursor
Edited(k, text, pos) ==
    /\ input_text' = [input_text EXCEPT ![k] = text]
    /\ cursor_position' = [cursor_position EXCEPT ![k] = pos]
    /\ UNCHANGED stage

\* the key event panics in the main thread: the client is gone
Panicked(k) ==
    /\ stage' = [stage EXCEPT ![k] = "panicked"]
    /\ UNCHANGED <<input_text, cursor_position>>

\* the user of k is at the keyboard of a running App
Editing(k) ==
    /\ k \in Typists
    /\ running[k]
    /\ stage[k] = "ui"

\* what the editing keys leave alone
OnlyEditor ==
    /\ UNCHANGED <<build, app_username, running, messages, rx, reader,
                   to_server, from_server, keys, arrivals, cursor_visible,
                   ticks, sent, handled, initial_messages>>
    /\ UNCHANGED vars

\* KeyCode::Char(c): self.input_text.insert(self.cursor_position, c);
\* self.cursor_position += 1
InsertChar(k) ==
    /\ Editing(k)
    /\ \E c \in TypedChars :
          /\ Len(input_text[k]) + Len(c) <= MaxBytes
          /\ IF IsCharBoundary(input_text[k], cursor_position[k])
             THEN Edited(k, SubSeq(input_text[k], 1, cursor_position[k]) \o c
                               \o SubSeq(input_text[k], cursor_position[k] + 1,
                                         Len(input_text[k])),
                         cursor_position[k] + 1)
             ELSE Panicked(k)
    /\ OnlyEditor

\* Ctrl+U: self.input_text.drain(0..self.cursor_position);
\* self.cursor_position = 0
ClearToStart(k) ==
    /\ Editing(k)
    /\ IF IsCharBoundary(input_text[k], cursor_position[k])
       THEN Edited(k, Drained(input_text[k], 0, cursor_position[k]), 0)
       ELSE Panicked(k)
    /\ OnlyEditor

\* KeyCode::Backspace: self.input_text.remove(self.cursor_position - 1);
\* self.cursor_position -= 1
Backspace(k) ==
    /\ Editing(k)
    /\ cursor_position[k] > 0
    /\ LET idx == cursor_position[k] - 1 IN
          IF IsCharBoundary(input_text[k], idx)
          THEN Edited(k, Drained(input_text[k], idx,
                                 idx + LenUtf8(input_text[k], idx)),
                      cursor_position[k] - 1)
          ELSE Panicked(k)
    /\ OnlyEditor

\* Alt+Backspace: the text from the start of the previous word to the
\* cursor is drained
DeleteWord(k) ==
    /\ Editing(k)
    /\ cursor_position[k] > 0
    /\ LET start == WordStartBefore(input_text[k], cursor_position[k]) IN
          IF /\ IsCharBoundary(input_text[k], cursor_position[k])
             /\ IsCharBoundary(input_text[k], start)
          THEN Edited(k, Drained(input_text[k], start, cursor_position[k]),
                      start)
          ELSE Panicked(k)
    /\ OnlyEditor

\* KeyCode::Delete: self.input_text.remove(self.cursor_position)
DeleteChar(k) ==
    /\ Editing(k)
    /\ cursor_position[k] < Len(input_text[k])
    /\ LET idx == cursor_position[k] IN
          IF IsCharBoundary(input_text[k], idx)
          THEN Edited(k, Drained(input_text[k], idx,
                                 idx + LenUtf8(input_text[k], idx)),
                      cursor_position[k])
          ELSE Panicked(k)
    /\ OnlyEditor

\* KeyCode::Left and KeyCode::Right without a modifier
CursorStep(k) ==
    /\ Editing(k)
    /\ \/ Edited(k, input_text[k],
                 MoveCursorLeft(input_text[k], cursor_position[k]))
       \/ Edited(k, input_text[k],
                 MoveCursorRight(input_text[k], cursor_position[k]))
    /\ OnlyEditor

\* Ctrl+A or Ctrl+Left, Ctrl+E or Ctrl+Right: move_cursor_to_start,
\* move_cursor_to_end
CursorToEdge(k) ==
    /\ Editing(k)
    /\ \/ Edited(k, input_text[k], 0)
       \/ Edited(k, input_text[k], Len(input_text[k]))
    /\ OnlyEditor

\* Alt+B or Alt+Left: move_cursor_word_left
CursorWordLeft(k) ==
    /\ Editing(k)
    /\ cursor_position[k] > 0
    /\ IF IsCharBoundary(input_text[k], cursor_position[k])
       THEN Edited(k, input_text[k],
                   WordStartBefore(input_text[k], cursor_position[k]))
       ELSE Panicked(k)
    /\ OnlyEditor

\* Alt+F or Alt+Right: move_cursor_word_right
CursorWordRight(k) ==
    /\ Editing(k)
    /\ cursor_position[k] < Len(input_text[k])
    /\ IF IsCharBoundary(input_text[k], cursor_position[k])
       THEN Edited(k, input_text[k],
                   WordStartAfter(input_text[k], cursor_position[k]))
       ELSE Panicked(k)
    /\ OnlyEditor

\* KeyCode::Enter, for the first line of a run: nothing has been submitted
EnterLine(k) ==
    /\ Editing(k)
    /\ to_server[k] = <<>>
    /\ messages[k] = InitialMessages(app_username[k])
    /\ Submit(k)
    /\ UNCHANGED <<build, app_username, running, rx, reader, from_server,
                   keys, arrivals, cursor_visible, ticks, sent, handled,
                   stage, initial_messages>>
    /\ UNCHANGED vars

EditNext ==
    \E k \in Clients :
        \/ InsertChar(k)
        \/ ClearToStart(k)
        \/ Backspace(k)
        \/ DeleteWord(k)
        \/ DeleteChar(k)
        \/ CursorStep(k)
        \/ CursorToEdge(k)
        \/ CursorWordLeft(k)
        \/ CursorWordRight(k)
        \/ EnterLine(k)

\* the Apps of a run whose typing user is named al
EditInit ==
    /\ ClientInit
    /\ app_username[1] = <<"a", "l">>

EditSpec == EditInit /\ [][EditNext]_<<vars, cvars>>

(* ------------------------- shared vocabulary -------------------------- *)

\* the handler of c is inside broadcast_message, between lock and return
InPass(c) == lock = c /\ pc[c] \in BroadcastPcs

\* ... and its for loop has visited every entry
LoopDone(c) == InPass(c) /\ pass.iter = {}

\* this step is the return of c's broadcast_message call
PassReturns(c) == InPass(c) /\ lock' # c

\* the sessions c's running call has attempted a write to
WrittenTo == {a \in Conns : pass.wrote[a] >= 1}

\* two names that differ at most in the case of ASCII letters
SameName(u, v) ==
    /\ Len(u) = Len(v)
    /\ \A i \in 1..Len(u) : ToAsciiLower(u[i]) = ToAsciiLower(v[i])

\* handle_client has got a username back from get_username and not returned
AdmittedPcs ==
    {"hc_lock", "hc_insert", "join", "active", "relay", "leave",
     "hc_remove_lock", "hc_remove"}

\* get_username holds a candidate it has read and not yet answered
CandidatePcs == RejectPcs \cup {"gu_lock", "gu_check"}

\* a step of c's handler out of the position `at`
StepFrom(c, at) == pc[c] = at /\ pc'[c] # at

\* the prompt is what get_username writes next at the top of its loop, and
\* the candidate read is what follows it
PromptFollows(c) ==
    StepFrom(c, "gu_prompt") =>
        /\ wire'.to = c
        /\ wire'.payload = PROMPT
        /\ IF wire'.result = "ok" THEN pc'[c] = "gu_read" ELSE pc'[c] = "failed"

\* at the `continue` branch `at` the handler writes `text` to its own
\* stream and goes back to the prompt; the connection is not registered
RejectionWritten(c, at, text) ==
    StepFrom(c, at) =>
        /\ wire'.to = c
        /\ wire'.payload = text
        /\ IF wire'.result = "ok" THEN pc'[c] = "gu_prompt" ELSE pc'[c] = "failed"
        /\ c \notin DOMAIN connections'

(* ------------------------------- C1 ----------------------------------- *)

\* C1: in every interleaving of the handler threads, the registry never
\* holds two entries whose usernames are equal ignoring ASCII case.
C1_UniqueUsernames ==
    \A a, b \in DOMAIN connections :
        a # b => ~SameName(connections[a].username, connections[b].username)

(* ------------------------------- C2 ----------------------------------- *)

\* C2: when a broadcast_message call returns, every session whose write or
\* flush failed in that pass is out of the registry, every eligible session
\* was written in that pass whatever failed, and every session whose write
\* and flush succeeded (or that was skipped) is still registered, unchanged.
C2_FailedWritePruned ==
    [][\A c \in Conns :
          PassReturns(c) =>
             /\ \A x \in pass.failed : x \notin DOMAIN connections'
             /\ \A a \in DOMAIN connections :
                   (pass.include_sender \/ a # c) => pass.wrote[a] = 1
             /\ \A a \in DOMAIN connections \ pass.failed :
                   a \in DOMAIN connections' /\ connections'[a] = connections[a]
      ]_vars

\* a pass over three sessions is about to return: one write failed, the
\* other two sessions were written all the same
C2_Witness ==
    \E c \in Conns :
        /\ LoopDone(c)
        /\ Cardinality(DOMAIN connections) = 3
        /\ Cardinality(pass.failed) = 1
        /\ WrittenTo = DOMAIN connections
        /\ pass.to_remove = pass.failed

(* ------------------------------- C3 ----------------------------------- *)

\* C3 as stated: a pass over a registry of N sessions attempts exactly one
\* write to N sessions when include_sender is true and to exactly N-1
\* sessions when it is false.
C3_WritesAllOrAllButOne ==
    \A c \in Conns :
        LoopDone(c) =>
            /\ \A a \in Conns : pass.wrote[a] <= 1
            /\ Cardinality(WrittenTo) =
                  IF pass.include_sender
                  THEN Cardinality(DOMAIN connections)
                  ELSE Cardinality(DOMAIN connections) - 1

\* C3 amended: a pass attempts exactly one write to every registered
\* session when include_sender is true, and to every registered session but
\* the sender's when it is false: N-1 sessions when the sender's entry is
\* among the N, all N when that entry has been pruned before.
C3_WritesEachEligibleOnce ==
    \A c \in Conns :
        LoopDone(c) =>
            /\ \A a \in Conns :
                  pass.wrote[a] =
                     IF a \in DOMAIN connections /\ (pass.include_sender \/ a # c)
                     THEN 1 ELSE 0
            /\ Cardinality(WrittenTo) =
                  IF pass.include_sender \/ c \notin DOMAIN connections
                  THEN Cardinality(DOMAIN connections)
                  ELSE Cardinality(DOMAIN connections) - 1

\* a chat line has gone round a registry of three: two writes, none to
\* the sender
C3_Witness ==
    \E c \in Conns :
        /\ LoopDone(c)
        /\ pc[c] = "relay"
        /\ c \in DOMAIN connections
        /\ Cardinality(DOMAIN connections) = 3
        /\ WrittenTo = DOMAIN connections \ {c}

(* ------------------------------- C4 ----------------------------------- *)

\* C4: once handle_client has returned, after a read error of the relay
\* loop as after anything else, the registry holds no entry for the
\* connection.
C4_NoEntryAfterReturn ==
    \A c \in Conns : pc[c] \in {"done", "failed"} => c \notin DOMAIN connections

(* ------------------------------- C5 ----------------------------------- *)

\* C5: a read error in the relay loop is handled like a zero-length read:
\* the handler goes on to broadcast its leave notice.
C5_ReadErrorLeaves ==
    [][\A c \in Conns :
          (StepFrom(c, "active") /\ failures' # failures) => pc'[c] = "leave"
      ]_vars

(* ------------------------------- C6 ----------------------------------- *)

\* C6: on a zero-length read in the relay loop the handler first broadcasts
\* "<username> has left the chat" to every other registered session and
\* never to its own, then removes its own entry, then terminates; once it
\* has terminated the registry holds no entry for it.
C6_LeaveThenRemove ==
    /\ [](\A c \in Conns :
            /\ (InPass(c) /\ pc[c] = "leave") =>
                  /\ pass.message = LeaveMessage(username[c])
                  /\ ~pass.include_sender
                  /\ pass.wrote[c] = 0
            /\ (LoopDone(c) /\ pc[c] = "leave") =>
                  \A a \in DOMAIN connections \ {c} : pass.wrote[a] = 1
            /\ pc[c] = "done" => c \notin DOMAIN connections)
    /\ [][\A c \in Conns :
            /\ (StepFrom(c, "active") /\ failures' = failures /\ chats' = chats)
                  => pc'[c] = "leave"
            /\ (InPass(c) /\ pc[c] = "leave" /\ c \in DOMAIN connections)
                  => c \in DOMAIN connections'
            /\ StepFrom(c, "leave") =>
                  \/ LoopDone(c) /\ pc'[c] = "hc_remove_lock"
                  \/ ~InPass(c) /\ pc'[c] = "leave"
            /\ (pc'[c] = "hc_remove_lock" /\ pc[c] # "hc_remove_lock")
                  => LoopDone(c) /\ pc[c] = "leave"
            /\ (pc'[c] = "done" /\ pc[c] # "done")
                  => pc[c] = "hc_remove" /\ c \notin DOMAIN connections'
         ]_vars

\* a handler has terminated after a zero-length read while two other
\* sessions stay registered
C6_Witness ==
    \E c \in Conns :
        /\ pc[c] = "done"
        /\ c \notin DOMAIN connections
        /\ Cardinality(DOMAIN connections) = 2

(* ------------------------------- C7 ----------------------------------- *)

\* C7: whatever the registry holds, get_username never returns a candidate
\* that equals "System" ignoring ASCII case; each such candidate is answered
\* with the reserved-name rejection on the handler's own stream and then
\* with a new prompt.
C7_ReservedNeverReturned ==
    /\ [](\A c \in Conns :
            /\ (pc[c] \in CandidatePcs /\ SameName(Trim(buf[c]), RESERVED))
                  => pc[c] = "gu_reject_reserved"
            /\ pc[c] \in AdmittedPcs => ~SameName(username[c], RESERVED)
            /\ c \in DOMAIN connections
                  => ~SameName(connections[c].username, RESERVED))
    /\ [][\A c \in Conns :
            /\ RejectionWritten(c, "gu_reject_reserved", RESERVED_REJECTION)
            /\ PromptFollows(c)
         ]_vars

\* a handler is back at the prompt after its reserved candidate was
\* rejected, with another session registered
C7_Witness ==
    \E c \in Conns :
        /\ pc[c] = "gu_prompt"
        /\ wire = WriteTo(c, RESERVED_REJECTION, "ok")
        /\ DOMAIN connections # {}

(* ------------------------------- C8 ----------------------------------- *)

\* the bytes read hold nothing but whitespace
Blank(raw) == \A i \in 1..Len(raw) : raw[i] \in {" ", "\n", "\r", "\t"}

\* C8: a candidate that is empty once trimmed is never returned by
\* get_username nor inserted; it is answered with the empty-name rejection
\* and then with a new prompt, and the handshake goes on.
C8_EmptyNeverReturned ==
    /\ [](\A c \in Conns :
            /\ (pc[c] \in CandidatePcs /\ Blank(buf[c]))
                  => pc[c] = "gu_reject_empty"
            /\ pc[c] \in AdmittedPcs => username[c] # <<>> /\ ~Blank(username[c])
            /\ c \in DOMAIN connections
                  => connections[c].username # <<>>
                     /\ ~Blank(connections[c].username))
    /\ [][\A c \in Conns :
            /\ RejectionWritten(c, "gu_reject_empty", EMPTY_REJECTION)
            /\ PromptFollows(c)
         ]_vars

\* a handler is back at the prompt after its blank candidate was rejected
C8_Witness ==
    \E c \in Conns :
        /\ pc[c] = "gu_prompt"
        /\ wire = WriteTo(c, EMPTY_REJECTION, "ok")
        /\ c \notin DOMAIN connections

(* ------------------------------- C9 ----------------------------------- *)

\* some registered username equals u ignoring ASCII case
Registered(u) ==
    \E a \in DOMAIN connections : SameName(connections[a].username, u)

\* C9: a candidate that equals a registered username ignoring case when it
\* is checked is answered with the already-taken rejection and a new prompt
\* and is not admitted; a candidate that passes the checks is returned, the
\* connection is inserted under it (unless cloning the stream fails), and
\* its join notice is written to every other registered session.
C9_TakenRejectedThenAdmitted ==
    /\ [](\A c \in Conns :
            /\ pc[c] \in CandidatePcs \cup {"gu_prompt", "gu_read"}
                  => c \notin DOMAIN connections
            /\ (InPass(c) /\ pc[c] = "join")
                  => pass.message = JoinMessage(username[c])
            /\ (LoopDone(c) /\ pc[c] = "join")
                  => \A a \in DOMAIN connections \ {c} : pass.wrote[a] = 1)
    /\ [][\A c \in Conns :
            /\ StepFrom(c, "gu_check") =>
                  IF Registered(username[c])
                  THEN pc'[c] = "gu_reject_taken" /\ connections' = connections
                  ELSE pc'[c] = "hc_lock" /\ username'[c] = username[c]
            /\ RejectionWritten(c, "gu_reject_taken", TAKEN_REJECTION)
            /\ PromptFollows(c)
            /\ StepFrom(c, "hc_insert") =>
                  \/ /\ pc'[c] = "join"
                     /\ c \in DOMAIN connections'
                     /\ connections'[c].username = username[c]
                  \/ pc'[c] = "failed" /\ failures' # failures
         ]_vars

\* a connection whose first candidate was taken has been admitted under a
\* later one, and its join notice has reached the session that held the
\* name
C9_Witness ==
    \E c \in retry :
        /\ LoopDone(c)
        /\ pc[c] = "join"
        /\ c \in DOMAIN connections
        /\ \E a \in DOMAIN connections \ {c} : pass.wrote[a] = 1

(* ------------------------------- C10 ---------------------------------- *)

\* the handler's join notice has gone round: one call, made after the
\* insertion, with include_sender true, written to every registered session
JoinWrittenToAll(c) ==
    /\ (InPass(c) /\ pc[c] = "join") =>
          /\ pass.include_sender
          /\ pass.message = JoinMessage(username[c])
    /\ (LoopDone(c) /\ pc[c] = "join") =>
          \A a \in Conns :
              pass.wrote[a] = IF a \in DOMAIN connections THEN 1 ELSE 0

\* the join notice is broadcast once, after the insertion
JoinOnceAfterInsert(c) ==
    /\ (pc'[c] = "join" /\ pc[c] # "join")
          => pc[c] = "hc_insert" /\ c \in DOMAIN connections'
    /\ StepFrom(c, "join") => LoopDone(c) /\ pc'[c] = "active"

\* C10 as stated: after the handshake the handler inserts the session and
\* then broadcasts exactly one join notice with include_sender true, so the
\* notice is written to every registered session and to the new session
\* itself.
C10_JoinReachesNewSession ==
    /\ [](\A c \in Conns :
            /\ JoinWrittenToAll(c)
            /\ (LoopDone(c) /\ pc[c] = "join") => pass.wrote[c] = 1)
    /\ [][\A c \in Conns : JoinOnceAfterInsert(c)]_vars

\* C10 amended: the one join notice is written to every session registered
\* when the broadcast runs; that includes the new session itself unless
\* another handler's failed write has pruned its entry between the
\* insertion and the broadcast.
C10_JoinReachesRegistered ==
    /\ [](\A c \in Conns :
            /\ JoinWrittenToAll(c)
            /\ (LoopDone(c) /\ pc[c] = "join")
                  => pass.wrote[c] = IF c \in DOMAIN connections THEN 1 ELSE 0)
    /\ [][\A c \in Conns : JoinOnceAfterInsert(c)]_vars

\* the join notice of the third session has been written to all three
C10_Witness ==
    \E c \in Conns :
        /\ LoopDone(c)
        /\ pc[c] = "join"
        /\ Cardinality(DOMAIN connections) = 3
        /\ WrittenTo = DOMAIN connections
        /\ pass.failed = {}

(* ------------------------------- C11 ---------------------------------- *)

\* C11: every non-empty read of the relay loop is broadcast once with the
\* payload "<username>: " followed by the chunk exactly as it was received,
\* to every registered session except the sender; the sender's own session
\* is never written.
C11_RelaysChunkAsReceived ==
    \A c \in Conns :
        /\ pc[c] = "relay" =>
              formatted_msg[c] = username[c] \o <<":", " ">> \o buf[c]
        /\ (InPass(c) /\ pc[c] = "relay") =>
              /\ pass.message = username[c] \o <<":", " ">> \o buf[c]
              /\ ~pass.include_sender
              /\ pass.wrote[c] = 0
        /\ (LoopDone(c) /\ pc[c] = "relay") =>
              \A a \in DOMAIN connections \ {c} : pass.wrote[a] = 1

(* ------------------------------- C12 ---------------------------------- *)

\* C12: broadcast_message returns Ok whatever the registry holds and
\* whichever writes and flushes failed in the pass: the call ends only when
\* its loop has visited every entry, and the calling handler then goes on
\* where an Ok leads (back to the relay loop's read after a join notice or
\* a chat line, to the removal after a leave notice), never to its error
\* return.
C12_BroadcastReturnsOk ==
    [][\A c \in Conns :
          InPass(c) =>
             /\ pc'[c] # "failed"
             /\ pc'[c] # pc[c] => LoopDone(c)
             /\ PassReturns(c) =>
                   /\ pc'[c] = IF pc[c] = "leave" THEN "hc_remove_lock" ELSE "active"
                   /\ failures' = failures
      ]_vars

\* a chat line's pass is over with a failed delivery to another session,
\* and the sender's handler is about to go back to its read
C12_Witness ==
    \E c \in Conns :
        /\ LoopDone(c)
        /\ pc[c] = "relay"
        /\ pass.failed # {}
        /\ c \notin pass.failed
        /\ c \in DOMAIN connections

(* ------------------------------- C13 ---------------------------------- *)

\* get_username is running in the handler of c
HandshakePcs == {"gu_prompt", "gu_read", "gu_lock", "gu_check"} \cup RejectPcs

\* C13: when a read or a write fails during get_username, handle_client
\* returns the error: the connection has no registry entry then nor later,
\* no join and no leave notice is broadcast for it, and the step changes
\* neither the registry nor any other handler.
C13_HandshakeErrorReturns ==
    /\ [](\A c \in Conns :
            (InPass(c) \/ pass.sender_addr = c) => pc[c] \in BroadcastPcs)
    /\ [][\A c \in Conns :
            /\ (pc[c] \in HandshakePcs /\ pc'[c] # pc[c] /\ failures' # failures) =>
                  /\ pc'[c] = "failed"
                  /\ c \notin DOMAIN connections'
                  /\ connections' = connections
                  /\ lock' = lock /\ pass' = pass
                  /\ wire'.to \in {c, NoThread}
                  /\ \A d \in Conns \ {c} :
                        /\ pc'[d] = pc[d]
                        /\ username'[d] = username[d]
                        /\ buf'[d] = buf[d]
            /\ pc[c] = "failed" => pc'[c] = "failed"
            /\ (pc[c] = "failed" /\ c \notin DOMAIN connections)
                  => c \notin DOMAIN connections'
         ]_vars

\* a handshake has ended on a failed write to its own stream while another
\* session is registered
C13_Witness ==
    \E c \in Conns :
        /\ pc[c] = "failed"
        /\ wire.to = c
        /\ wire.result \in {"write_err", "flush_err"}
        /\ wire.payload \in {PROMPT, EMPTY_REJECTION, RESERVED_REJECTION, TAKEN_REJECTION}
        /\ c \notin DOMAIN connections
        /\ DOMAIN connections # {}

(* ------------------------------- C14 ---------------------------------- *)

\* C14: no step of get_username changes the registry, whether it rejects,
\* returns a username or fails; an entry for a connection appears only at
\* handle_client's insert, under the username get_username returned, so a
\* connection that is still handshaking has no entry.
C14_HandshakeLeavesRegistry ==
    /\ [](\A c \in Conns :
            pc[c] \in HandshakePcs \cup {"idle", "hc_lock", "hc_insert"}
               => c \notin DOMAIN connections)
    /\ [][\A c \in Conns :
            /\ (pc[c] \in HandshakePcs /\ pc'[c] # pc[c])
                  => connections' = connections
            /\ (c \notin DOMAIN connections /\ c \in DOMAIN connections') =>
                  /\ pc[c] = "hc_insert"
                  /\ pc'[c] = "join"
                  /\ connections'[c].username = username[c]
                  /\ \A a \in DOMAIN connections :
                        a \in DOMAIN connections' /\ connections'[a] = connections[a]
         ]_vars

\* get_username has returned a username after an earlier rejection; other
\* sessions are registered and this connection is not yet
C14_Witness ==
    \E c \in retry :
        /\ pc[c] = "hc_lock"
        /\ username[c] # <<>>
        /\ c \notin DOMAIN connections
        /\ DOMAIN connections # {}

(* ------------------------------- C15 ---------------------------------- *)

\* the statements a handler runs while it holds a guard of the registry
\* mutex, other than those of broadcast_message
GuardedPcs == {"gu_check", "hc_insert", "hc_remove"}

\* C15: a broadcast pass holds the registry lock from before its first
\* write until after its pruning: while it runs the registry changes only
\* by that pruning, the lock is released only by the return, and no other
\* handler runs its uniqueness check, its insert, its remove or a step of a
\* broadcast of its own.
C15_PassHoldsLock ==
    /\ [](/\ pass # NoPass => InPass(pass.sender_addr)
          /\ \A d \in Conns : pc[d] \in GuardedPcs => lock = d)
    /\ [][\A c \in Conns :
            InPass(c) =>
               /\ lock' # c =>
                     /\ pass.iter = {}
                     /\ lock' = NoThread
                     /\ pc'[c] # pc[c]
                     /\ DOMAIN connections' = DOMAIN connections \ pass.failed
               /\ lock' = c => connections' = connections /\ pc'[c] = pc[c]
               /\ pass' # pass => pass'.sender_addr \in {c, NoThread}
               /\ (wire'.to # NoThread /\ wire' # wire /\ pass' = pass)
                     => wire'.to \notin DOMAIN connections
               /\ \A d \in Conns \ {c} :
                     pc'[d] # pc[d] =>
                        /\ pc[d] \notin GuardedPcs \cup BroadcastPcs
                        /\ pc'[d] \notin GuardedPcs
         ]_vars

\* a pass has made its first write and has more entries to visit while
\* another handler waits for the lock
C15_Witness ==
    \E c \in Conns :
        /\ InPass(c)
        /\ WrittenTo # {}
        /\ pass.iter # {}
        /\ \E d \in Conns \ {c} :
              pc[d] \in {"gu_lock", "hc_lock", "hc_remove_lock"} \cup BroadcastPcs

(* ------------------------------- C16 ---------------------------------- *)

\* the handler is blocked in stream.read: the candidate read of the
\* handshake or the read of the relay loop
ReadPcs == {"gu_read", "active"}

\* C16: no handler holds the registry lock while it is blocked on a socket
\* read, and accepting a connection never takes the lock: the holder of
\* the lock is always inside a critical section, whose next step needs no
\* input from any peer, so a silent client blocks nobody's registry
\* operations.
C16_NoLockAcrossRead ==
    /\ [](\A c \in Conns :
            /\ pc[c] \in ReadPcs \cup {"idle", "gu_prompt"} \cup RejectPcs
                  => lock # c
            /\ lock = c =>
                  /\ pc[c] \in GuardedPcs \cup BroadcastPcs
                  /\ ENABLED (\/ GuCheck(c) \/ HcInsert(c) \/ HcRemove(c)
                              \/ BroadcastVisit(c) \/ BroadcastReturn(c)))
    /\ [][\A c \in Conns :
            (StepFrom(c, "idle") \/ StepFrom(c, "gu_read") \/ StepFrom(c, "active"))
               => lock' = lock /\ lock # c
         ]_vars

\* one client is silent at the username prompt, another is silent in the
\* chat, and a third handler holds the lock for a registry operation
C16_Witness ==
    \E c, d, e \in Conns :
        /\ pc[c] = "gu_read"
        /\ pc[d] = "active"
        /\ lock = e
        /\ e \notin {c, d}

(* ------------------------- client vocabulary -------------------------- *)

\* this step is the consumer of client k handling the event at the head of
\* its channel
Handles(k) == running[k] /\ rx[k] # <<>> /\ rx'[k] = Tail(rx[k])

\* ... and that event is the Enter key
HandlesEnter(k) == Handles(k) /\ Recv(rx[k]) = Input(Enter)

\* the entries the step appends to the history of client k
Appended(k) == SubSeq(messages'[k], Len(messages[k]) + 1, Len(messages'[k]))

\* the step only appends to the history of client k
OnlyAppends(k) ==
    /\ Len(messages'[k]) >= Len(messages[k])
    /\ SubSeq(messages'[k], 1, Len(messages[k])) = messages[k]

\* author and content of a history entry
Shown(m) == <<m.author, m.content>>

(* ------------------------------- C17 ---------------------------------- *)

\* C17: when client A submits the text t and the line the server relays
\* reaches client B in one chunk, B appends the entry {author: A's
\* username, content: t}, and A's own history already holds that entry from
\* its local echo.
C17_RelayedEntryMatchesEcho ==
    \A b \in Clients :
        \A i \in 1..Len(messages[b]) :
            messages[b][i].cause.kind = "relay" =>
               LET a == messages[b][i].cause.from
                   t == messages[b][i].cause.text
               IN /\ Shown(messages[b][i]) = <<app_username[a], t>>
                  /\ \E j \in 1..Len(messages[a]) :
                        Shown(messages[a][j]) = <<app_username[a], t>>

(* ------------------------------- C18 ---------------------------------- *)

\* C18: on Enter with input text that is not blank the submit handler
\* first appends the entry {author: own username, content: the input text}
\* and only then attempts the write, so that a failure entry comes after
\* the echo; on Enter with empty or blank input it appends nothing and
\* writes nothing.
C18_EchoBeforeSend ==
    [][\A k \in Clients :
          HandlesEnter(k) =>
             IF Blank(input_text[k])
             THEN messages'[k] = messages[k] /\ to_server'[k] = to_server[k]
             ELSE /\ OnlyAppends(k)
                  /\ Len(Appended(k)) >= 1
                  /\ Shown(Appended(k)[1]) = <<app_username[k], input_text[k]>>
                  /\ \A i \in 2..Len(Appended(k)) :
                        Appended(k)[i].cause.kind = "failure"
      ]_cvars

(* ------------------------------- C19 ---------------------------------- *)

\* the lines the step adds to what client k has written to its socket
NewLines(k) == SubSeq(to_server'[k], Len(to_server[k]) + 1, Len(to_server'[k]))

\* the entries among `entries` that report a failed send
Failures(entries) ==
    {i \in 1..Len(entries) : entries[i].cause.kind = "failure"}

\* C19: when taking the write lock, the write or the flush fails in the
\* submit handler, exactly one "System" entry describing the failure is
\* appended (none when all three succeed), the line is not written a second
\* time, the client keeps running with its reader, and the input buffer is
\* cleared.
C19_SendFailureReported ==
    [][\A k \in Clients :
          (HandlesEnter(k) /\ ~Blank(input_text[k])) =>
             /\ OnlyAppends(k)
             /\ Len(NewLines(k)) <= 1
             /\ \A i \in 1..Len(NewLines(k)) :
                   NewLines(k)[i].bytes = input_text[k] \o <<"\n">>
             /\ Cardinality(Failures(Appended(k))) =
                   IF NewLines(k) = <<>> \/ ~NewLines(k)[1].flushed THEN 1 ELSE 0
             /\ \A i \in Failures(Appended(k)) :
                   /\ i = Len(Appended(k))
                   /\ Appended(k)[i].author = <<"S", "y", "s", "t", "e", "m">>
                   /\ Appended(k)[i].content \in
                         IF NewLines(k) = <<>>
                         THEN {FAILED_LOCK \o ErrorText, FAILED_WRITE \o ErrorText}
                         ELSE {FAILED_SEND \o ErrorText}
             /\ running'[k] /\ reader' = reader
             /\ input_text'[k] = <<>> /\ cursor_position'[k] = 0
      ]_cvars

\* a submit has failed: the failure entry is the last of the history, the
\* client runs and its input buffer is empty
C19_Witness ==
    \E k \in Clients :
        /\ running[k]
        /\ input_text[k] = <<>>
        /\ messages[k] # <<>>
        /\ messages[k][Len(messages[k])].cause.kind = "failure"
        /\ messages[k][Len(messages[k])].author = SYSTEM
        /\ to_server[k] = <<>>

(* ------------------------------- C20 ---------------------------------- *)

\* the step is the consumer of client k handling a ServerMessage event
HandlesServerMessage(k) == Handles(k) /\ Recv(rx[k]).type = "ServerMessage"

\* the positions of the colons of a text
Colons(text) == {i \in 1..Len(text) : text[i] = ":"}

\* C20: for every ServerMessage chunk whose trimmed text is not empty, the
\* entry appended has, when the text contains ':', author = the trimmed
\* text before the first ':' and content = the trimmed text after it, and
\* otherwise author "System" and content = the whole trimmed text.
C20_ParsesAtFirstColon ==
    [][\A k \in Clients :
          (HandlesServerMessage(k) /\ ~Blank(Recv(rx[k]).message)) =>
             LET text == Trim(Recv(rx[k]).message) IN
                /\ OnlyAppends(k)
                /\ Len(Appended(k)) = 1
                /\ IF Colons(text) # {}
                   THEN \E i \in Colons(text) :
                           /\ \A j \in Colons(text) : i <= j
                           /\ Appended(k)[1].author = Trim(SubSeq(text, 1, i - 1))
                           /\ Appended(k)[1].content =
                                 Trim(SubSeq(text, i + 1, Len(text)))
                   ELSE /\ Appended(k)[1].author = <<"S", "y", "s", "t", "e", "m">>
                        /\ Appended(k)[1].content = text
      ]_cvars

\* a history holds an entry made from a chat line with two colons and an
\* entry made from a notice without any
C20_Witness ==
    \E k \in Clients :
        \E i, j \in 1..Len(messages[k]) :
            /\ messages[k][i].cause.kind = "relay"
            /\ messages[k][i].author = <<"a">>
            /\ messages[k][i].content = <<"b", ":", " ", "h">>
            /\ messages[k][j].cause.kind \in {"notice", "end"}
            /\ messages[k][j].author = SYSTEM
            /\ Colons(messages[k][j].content) = {}


(* ------------------------------- C21 ---------------------------------- *)

\* C21: each ServerMessage event whose trimmed text is not empty appends
\* exactly one history entry, also when the chunk holds several server
\* lines separated by line feeds; an event whose trimmed text is empty
\* appends no entry.
C21_OneEntryPerEvent ==
    [][\A k \in Clients :
          HandlesServerMessage(k) =>
             /\ OnlyAppends(k)
             /\ Len(Appended(k)) = IF Blank(Recv(rx[k]).message) THEN 0 ELSE 1
      ]_cvars

\* a single entry of a history was made from a read that returned two
\* writes of the server: its content holds the line feed between them
C21_Witness ==
    \E k \in Clients :
        \E i \in 1..Len(messages[k]) :
            /\ messages[k][i].cause.kind = "joined"
            /\ \E j \in 1..Len(messages[k][i].content) :
                  messages[k][i].content[j] = "\n"
            /\ \A j \in 1..Len(messages[k]) :
                  j # i => messages[k][j].cause.kind = "initial"


(* ------------------------------- C22 ---------------------------------- *)

\* the events the step adds to the channel of client k
Sent(k) ==
    IF Handles(k) THEN <<>>
    ELSE [i \in 1..(Len(rx'[k]) - Len(rx[k])) |-> rx'[k][Len(rx[k]) + i].event]

\* the step is the network producer of client k leaving its loop
Stops(k) == reader[k] = "reading" /\ reader'[k] = "stopped"

\* C22: when the read of the network producer returns zero bytes or an
\* error, the producer emits exactly one termination notice and emits
\* nothing afterwards, and the consumer records that notice as exactly one
\* history entry whose author is "System".
C22_TerminationRecordedAsSystem ==
    [][\A k \in Clients :
          /\ Stops(k) =>
                /\ Len(Sent(k)) = 1
                /\ Sent(k)[1].type = "ServerMessage"
                /\ Sent(k)[1].cause.kind = "end"
          /\ reader[k] = "stopped" =>
                /\ reader'[k] = "stopped"
                /\ \A i \in 1..Len(Sent(k)) : Sent(k)[i].type # "ServerMessage"
          /\ (HandlesServerMessage(k) /\ Recv(rx[k]).cause.kind = "end") =>
                /\ OnlyAppends(k)
                /\ Len(Appended(k)) = 1
                /\ Appended(k)[1].author = <<"S", "y", "s", "t", "e", "m">>
      ]_cvars


(* ------------------------------- C23 ---------------------------------- *)

\* the bytes waiting in a socket, oldest first
RECURSIVE Waiting(_)
Waiting(socket) ==
    IF socket = <<>> THEN <<>> ELSE Head(socket).bytes \o Waiting(Tail(socket))

\* the step is a read of client k's socket that returns n > 0 bytes: what
\* waits afterwards is a proper suffix of what waited
ReadsSome(k) ==
    LET before == Waiting(from_server[k])
        after == Waiting(from_server'[k])
    IN /\ reader[k] = "reading"
       /\ Len(after) < Len(before)
       /\ after = SubSeq(before, Len(before) - Len(after) + 1, Len(before))

\* the bytes that read returned
ReadBytes(k) ==
    SubSeq(Waiting(from_server[k]), 1,
           Len(Waiting(from_server[k])) - Len(Waiting(from_server'[k])))

\* the step sends one server-text event carrying `text` on k's channel
SendsText(k, text) ==
    /\ Len(Sent(k)) = 1
    /\ Sent(k)[1].type = "ServerMessage"
    /\ Sent(k)[1].message = text

\* C23 as stated: for every socket read that returns n > 0 bytes the
\* network producer emits one server-text event carrying the decoded chunk.
C23_EveryReadEmits ==
    [][\A k \in Clients :
          ReadsSome(k) => SendsText(k, FromUtf8Lossy(ReadBytes(k)))
      ]_cvars

\* C23, amended: for every socket read that returns n > 0 bytes whose
\* decoded text is not blank the network producer emits one server-text
\* event carrying the decoded chunk; for a read whose decoded text is blank
\* it emits nothing and reads on.
C23_NonBlankReadEmits ==
    [][\A k \in Clients :
          ReadsSome(k) =>
             /\ reader'[k] = "reading"
             /\ IF Blank(FromUtf8Lossy(ReadBytes(k)))
                THEN Sent(k) = <<>>
                ELSE SendsText(k, FromUtf8Lossy(ReadBytes(k)))
      ]_cvars

\* a read returned a line without its line feed, the next read returned the
\* line feed alone, and nothing was sent for it
C23_Witness ==
    \E k \in Clients :
        /\ messages[k] # <<>>
        /\ messages[k][Len(messages[k])].cause.kind = "part"
        /\ rx[k] = <<>>
        /\ from_server[k] = <<>>
        /\ reader[k] = "reading"


(* ------------------------------- C24 ---------------------------------- *)

\* the numbers of the events waiting in a channel
Numbers(channel) == {channel[i].seq : i \in 1..Len(channel)}

\* C24: the consumer handles events one at a time and in the order the
\* channel received them: the events of a channel are numbered 1, 2, ...
\* as they are sent, whichever of the three producers sends them, each step
\* of the consumer handles exactly the event that follows the one it
\* handled last and takes only that event out of the channel, and no event
\* is lost or handled twice; so the events of each producer are handled in
\* the order that producer sent them.
C24_HandledInChannelOrder ==
    /\ [](\A k \in Clients :
             Numbers(rx[k]) = (handled[k] + 1)..sent[k])
    /\ [][\A k \in Clients :
             /\ handled'[k] \in {handled[k], handled[k] + 1}
             /\ handled'[k] # handled[k] =>
                   /\ handled'[k] \in Numbers(rx[k])
                   /\ Numbers(rx'[k]) = Numbers(rx[k]) \ {handled'[k]}
                   /\ sent'[k] = sent[k]
             /\ handled'[k] = handled[k] =>
                   /\ Len(rx'[k]) >= Len(rx[k])
                   /\ SubSeq(rx'[k], 1, Len(rx[k])) = rx[k]
                   /\ Numbers(rx'[k]) \ Numbers(rx[k]) = (sent[k] + 1)..sent'[k]
      ]_cvars

\* the consumer of a client has handled a key typed, a tick of the timer
\* and a notice of the server, one event of each producer
C24_Witness ==
    \E k \in Clients :
        /\ handled[k] = 3
        /\ keys = 1 /\ ticks = 1 /\ arrivals = 1
        /\ input_text[k] # <<>>
        /\ Len(messages[k]) = 2
        /\ messages[k][2].cause.kind = "notice"
        /\ \A j \in Clients \ {k} : sent[j] = 0


(* ------------------------------- C25 ---------------------------------- *)

\* C25: the history of a client is append-only: no step makes it shorter,
\* and every entry it holds keeps its position, its author and its content.
C25_HistoryAppendOnly ==
    [][\A k \in Clients :
          /\ Len(messages'[k]) >= Len(messages[k])
          /\ \A i \in 1..Len(messages[k]) :
                /\ messages'[k][i].author = messages[k][i].author
                /\ messages'[k][i].content = messages[k][i].content
      ]_cvars

\* a history has grown by an echo of the user's own line and then by a
\* notice of the server, after the entry it started with
C25_Witness ==
    \E k \in Clients :
        /\ Len(messages[k]) = 3
        /\ messages[k][1].cause.kind = "initial"
        /\ messages[k][2].cause.kind = "echo"
        /\ messages[k][3].cause.kind = "notice"


(* ------------------------------- C26 ---------------------------------- *)

\* a call of broadcast_message is between its lock and its return
PassRuns == pass.sender_addr # NoThread

\* what get_username writes
HandshakeTexts ==
    {PROMPT, EMPTY_REJECTION, RESERVED_REJECTION, TAKEN_REJECTION}

\* C26: broadcast passes are totally ordered by the registry lock, so any
\* two sessions that are each written the payloads p and q are written them
\* in the same order: at most one pass runs at a time and it is the lock
\* holder's; a running pass keeps its payload and ends only by its return;
\* every payload written to a stream by a broadcast is the payload of the
\* running pass, written to that stream at most once in the pass; and what
\* is written outside a pass is a handshake text on the handler's own
\* stream.  All writes of one pass thus precede all writes of the next.
C26_PassesTotallyOrdered ==
    /\ [](PassRuns => InPass(pass.sender_addr))
    /\ [][/\ PassRuns =>
                \/ /\ pass'.sender_addr = pass.sender_addr
                   /\ pass'.message = pass.message
                   /\ lock' = lock
                \/ /\ PassReturns(pass.sender_addr)
                   /\ pass.iter = {}
                   /\ pass' = NoPass
                   /\ lock' = NoThread
          /\ \A a \in Conns :
                /\ WritesTo(a) =>
                      /\ PassRuns /\ PassRuns'
                      /\ pass.wrote[a] = 0
                      /\ wire'.to = a
                      /\ wire'.payload = pass.message
                /\ (wire'.to = a /\ ~WritesTo(a)) =>
                      /\ wire'.payload \in HandshakeTexts
                      /\ pc[a] \in HandshakePcs
      ]_vars

\* the join notice of the third session is being written to the first two,
\* which were both written the join notice of the one that registered later
C26_Witness ==
    /\ pc[1] = "active" /\ pc[2] = "active"
    /\ {1, 2} \subseteq DOMAIN connections
    /\ failures = 0
    /\ pc[3] = "join"
    /\ pass.sender_addr = 3
    /\ pass.wrote[1] = 1 /\ pass.wrote[2] = 1


(* ------------------------------- C27 ---------------------------------- *)

\* C27: every chat line that is broadcast is authored by a connection that
\* is registered at the time of the broadcast (so none is broadcast for a
\* session after a failed broadcast write has pruned it): while the pass
\* of a relayed line runs, its sender has an entry in the registry.
C27_ChatAuthorRegistered ==
    \A c \in Conns :
        (InPass(c) /\ pc[c] = "relay") => c \in DOMAIN connections


(* ------------------------------- C28 ---------------------------------- *)

\* the handler of a has not yet inserted a's session
BeforeInsertPcs == HandshakePcs \cup {"idle", "hc_lock", "hc_insert"}

\* C28 as stated: the first payload written to a newly registered session
\* after its insertion is its own join notice: while the handler of a is
\* at its join broadcast, every write to a's stream is of a's own pass.
C28_JoinNoticeFirst ==
    [][\A a \in Conns :
          (WritesTo(a) /\ pc[a] = "join") => pass.sender_addr = a
      ]_vars

\* C28 as the code has it: a broadcast writes to a session's stream only
\* once the session has been inserted, and of the payloads of its own
\* handler the only one written to it is its join notice, during the first
\* broadcast of the handler; a pass of another handler that takes the lock
\* between the insertion and the join broadcast writes to it earlier.
C28_OwnJoinNoticeFirstOfOwn ==
    [][\A a \in Conns :
          WritesTo(a) =>
              /\ a \in DOMAIN connections
              /\ pc[a] \notin BeforeInsertPcs
              /\ pass.sender_addr = a =>
                    /\ pc[a] = "join"
                    /\ wire'.payload = JoinMessage(username[a])
      ]_vars

\* the first session, inserted and about to broadcast its join notice, has
\* been written a payload of the second session's pass
C28_Witness ==
    /\ pc[1] = "join"
    /\ 1 \in DOMAIN connections
    /\ pass.sender_addr = 2
    /\ wire.to = 1
    /\ wire.result = "ok"
    /\ wire.payload # JoinMessage(username[1])


(* ------------------------------- C29 ---------------------------------- *)

\* C29 as stated: once the handler of a has broadcast a's leave notice (the
\* call at line 123 has returned), no pass writes to a's stream.
C29_NoWriteAfterLeaveNotice ==
    [][\A a \in Conns :
          WritesTo(a) => pc[a] \notin {"hc_remove_lock", "hc_remove", "done"}
      ]_vars

\* C29 as the code has it: no pass writes to a's stream once a's handler
\* has removed a's entry at line 127 (nor while it holds the lock to do
\* so), and the leave pass itself does not write to it; between the return
\* of the leave broadcast and the removal, a's entry is still in the
\* registry and a pass of another handler writes to a's stream.
C29_NoWriteAfterRemoval ==
    /\ [](\A a \in Conns : pc[a] = "done" => a \notin DOMAIN connections)
    /\ [][\A a \in Conns :
             WritesTo(a) =>
                 /\ pc[a] \notin {"hc_remove", "done"}
                 /\ ~(pc[a] = "leave" /\ pass.sender_addr = a)
         ]_vars

\* the first session has left and its entry is removed; a later pass of
\* the second has written to the second and has nothing left to visit
C29_Witness ==
    /\ pc[1] = "done"
    /\ pass.sender_addr = 2
    /\ pass.wrote[2] = 1
    /\ pass.wrote[1] = 0
    /\ pass.iter = {}


(* ------------------------------- C30 ---------------------------------- *)

\* C30: for every session r that stays registered from before x's admission
\* on, x's join notice is written to r before any chat line of x, and x's
\* chat lines are written to r in the order x's handler read them.  With
\* the history kept: while r has been registered since x's insertion, the
\* first payload of x's handler written to r is x's join notice; the write
\* of a chat line of x to r is the write of the chunk x's handler read
\* last, which it holds until the pass returns, and it comes after the join
\* notice and after every chunk read earlier (the k-th chunk read is the
\* payload number k + 1); and whenever x's handler is back at its read, r
\* has been written the join notice and every chunk read so far.
C30_JoinThenLinesInReadOrder ==
    /\ [](\A r \in Conns, x \in Conns :
            (log.since[r][x] /\ pc[x] = "active") =>
                log.told[r][x] = log.nread[x] + 1)
    /\ [][/\ \A r \in Conns, x \in Conns :
                (WritesTo(r) /\ pass.sender_addr = x /\ log.since[r][x]) =>
                    \/ /\ pc[x] = "join"
                       /\ log.told[r][x] = 0
                       /\ log.nread[x] = 0
                       /\ wire'.payload = JoinMessage(username[x])
                    \/ /\ pc[x] = "relay"
                       /\ log.nread[x] >= 1
                       /\ log.told[r][x] = log.nread[x]
                       /\ wire'.payload =
                             FormattedMsg(username[x], FromUtf8Lossy(buf[x]))
                    \/ /\ pc[x] = "leave"
                       /\ log.told[r][x] = log.nread[x] + 1
                       /\ wire'.payload = LeaveMessage(username[x])
          /\ \A x \in Conns :
                (pc[x] = "relay" /\ pc'[x] = "relay") => buf'[x] = buf[x]
      ]_vars

\* the first session has been registered since before the second was
\* inserted, and has been written the second's join notice and then the
\* two chunks the second's handler read
C30_Witness ==
    /\ log.since[1][2]
    /\ 1 \in DOMAIN connections
    /\ pc[2] = "active"
    /\ log.nread[2] = 2
    /\ log.told[1][2] = 3


(* ------------------------------- C31 ---------------------------------- *)

\* the step is a candidate read of get_username for the connection of k
CandidateRead(k) == pc[k] = "gu_read" /\ pc'[k] # "gu_read"

\* C31: the client starts its chat UI only after the server has admitted
\* its username, so every line submitted in the UI is relayed as a chat
\* line and none is consumed as a username candidate: while the App runs
\* the client's session is in the relay loop, and the only line
\* get_username ever reads from the client is the one main wrote before
\* the UI.
C31_UiOnlyAfterAdmission ==
    /\ [](\A k \in Clients : running[k] => pc[k] = "active")
    /\ [][\A k \in Clients : CandidateRead(k) => reads = 0]_<<vars, cvars>>


(* ------------------------------- C32 ---------------------------------- *)

\* the step is a candidate read of c's handler that returned Ok(0)
ReadsNothing(c) ==
    /\ StepFrom(c, "gu_read")
    /\ failures' = failures
    /\ buf'[c] = <<>>

\* C32: during the handshake a zero-length read is not terminal: it is
\* treated as an empty candidate, answered with the empty-username
\* rejection and a new prompt, and get_username ends only when a read or a
\* write returns an error or a candidate is accepted.
C32_EofIsEmptyCandidate ==
    [][\A c \in Conns :
          /\ ReadsNothing(c) =>
                /\ pc'[c] = "gu_reject_empty"
                /\ username'[c] = <<>>
          /\ (StepFrom(c, "gu_reject_empty") /\ failures' = failures) =>
                /\ wire' = WriteTo(c, EMPTY_REJECTION, "ok")
                /\ pc'[c] = "gu_prompt"
          /\ (StepFrom(c, "gu_prompt") /\ failures' = failures) =>
                /\ wire' = WriteTo(c, PROMPT, "ok")
                /\ pc'[c] = "gu_read"
          /\ (pc[c] \in HandshakePcs /\ pc'[c] \notin HandshakePcs) =>
                \/ /\ pc'[c] = "failed"
                   /\ failures' = failures + 1
                \/ /\ pc[c] = "gu_check"
                   /\ pc'[c] = "hc_lock"
                   /\ ~IsEmpty(username[c])
                   /\ ~IsReserved(username[c])
                   /\ ~UsernameTaken(connections, username[c])
      ]_vars

\* the only handler has read a candidate again after a rejection and a new
\* prompt, and this read returned nothing: it is about to answer it with the
\* empty-username rejection
C32_Witness ==
    \E c \in Conns :
        /\ pc[c] = "gu_reject_empty"
        /\ buf[c] = <<>>
        /\ reads >= 2
        /\ \A d \in Conns \ {c} : pc[d] = "idle"


(* ------------------------------- C33 ---------------------------------- *)

\* the chunk is what the server wrote to relay one chat line, or a part of
\* it that one read of the client returned
RECURSIVE OfChatLine(_)
OfChatLine(cause) ==
    CASE cause.kind = "relay" -> TRUE
      [] cause.kind \in {"part", "rest"} -> OfChatLine(cause.of)
      [] OTHER -> FALSE

\* C33: a history entry whose author is "System" is made only from a join
\* or leave notice of the server, a termination notice or a local send
\* failure: the text another user sent as a chat line never yields a
\* "System" entry, however the byte stream is split into read chunks.
C33_SystemEntryNeverFromChatLine ==
    \A k \in Clients :
        \A i \in 1..Len(messages[k]) :
            messages[k][i].author = SYSTEM => ~OfChatLine(messages[k][i].cause)


(* ------------------------------- C34 ---------------------------------- *)

\* the handler is at a connections.lock() call that has not returned
AtLock(c) ==
    \/ pc[c] \in {"gu_lock", "hc_lock", "hc_remove_lock"}
    \/ pc[c] \in BroadcastPcs /\ lock # c

\* the handler is between a connections.lock() call and the drop of its
\* guard
InCriticalSection(c) == pc[c] \in GuardedPcs \cup BroadcastPcs

C35_ReadLoopEndsWithoutError ==
    [][\A k \in Clients :
          (pc[k] = "active" /\ stage[k] # "error") => stage'[k] # "error"
      ]_<<vars, cvars>>


(* ------------------------------- C36 ---------------------------------- *)

\* the consumer of k receives the Ctrl+C key event in this step
HandlesCtrlC(k) ==
    /\ running[k]
    /\ rx[k] # <<>>
    /\ Recv(rx[k]) = Input(CtrlC)
    /\ handled'[k] # handled[k]

\* nothing is taken from the channel of k in this step
NothingReceived(k) ==
    /\ handled'[k] = handled[k]
    /\ Len(rx'[k]) >= Len(rx[k])
    /\ SubSeq(rx'[k], 1, Len(rx[k])) = rx[k]

\* C36: when the consumer handles Ctrl+C it sets running to false and the
\* loop exits after that iteration: no event queued behind the Ctrl+C is
\* processed and no history entry is appended afterwards (nor is the input
\* line edited or a line sent).
C36_NothingHandledAfterCtrlC ==
    [][\A k \in Clients :
          /\ HandlesCtrlC(k) =>
                /\ ~running'[k]
                /\ messages'[k] = messages[k]
          /\ ~running[k] =>
                /\ ~running'[k]
                /\ NothingReceived(k)
                /\ messages'[k] = messages[k]
                /\ input_text'[k] = input_text[k]
                /\ Len(to_server'[k]) <= Len(to_server[k])
      ]_<<vars, cvars>>

\* the loop of a client has ended with Ctrl+C while a text of the server
\* and a key event were queued behind it
C36_Witness ==
    \E k \in Clients :
        /\ ~running[k]
        /\ Len(rx[k]) >= 2
        /\ \E i, j \in 1..Len(rx[k]) :
              /\ rx[k][i].event.type = "ServerMessage"
              /\ ~IsBlank(rx[k][i].event.message)
              /\ rx[k][j].event.type = "Input"


(* ------------------------------- C37 ---------------------------------- *)

\* C37: after any sequence of key events handled by the input editor
\* (insert, backspace, delete, word delete, clear to start, cursor moves,
\* submit), cursor_position is within 0..=input_text.len().
C37_CursorWithinText ==
    \A k \in Clients :
        /\ cursor_position[k] >= 0
        /\ cursor_position[k] <= Len(input_text[k])

\* the user has submitted a line and typed a new one of the greatest
\* length, which holds a two-byte character, and the cursor is at its end
C37_Witness ==
    \E k \in Clients :
        /\ stage[k] = "ui"
        /\ messages[k] # InitialMessages(app_username[k])
        /\ Len(input_text[k]) = MaxBytes
        /\ cursor_position[k] = MaxBytes
        /\ \E i \in 1..MaxBytes : input_text[k][i] = "C3"

=============================================================================
